---- MODULE Spec2Model ----
(***************************************************************************)
(* FireLink Lite: the WebRTC signaling server (server/webrtc.ts).          *)
(*                                                                         *)
(* The server keeps a map of live connections and a room index keyed by    *)
(* alert id.  It is driven by four socket events: "connection", "message", *)
(* "close" and "error".  Every handler is synchronous, so each event is    *)
(* one atomic step.  inbox[c] is the sequence of frames socket.send() has  *)
(* written to connection c, in order.                                      *)
(***************************************************************************)
EXTENDS Integers, Sequences, FiniteSets, TLC

\* ------------------------------------------------------------- bounds
\* connections accepted in one run, and steps taken in one run
MaxConn == 3
MaxEvents == 6
\* frames the clients write in one run of the relay specification
MaxSends == 2
\* /ws clients accepted in one run
MaxClients == 3

\* ---------------------------------------------------------- constants
ConnIds == 1..MaxConn
ClientIds == 1..MaxClients
\* message.to / message.from are optional: 0 stands for an absent (falsy) id
NoId == 0
\* no response of POST /api/alerts has been sent yet
NoStatus == 0
\* an optional number (lat?, lng?) that is absent
NoNumber == 999
\* a missing alertId in message.data, and connection.alertId before any join
undefined == "undefined"
RoomIds == {"r1", "r2"}
AlertIds == RoomIds \cup {undefined}
Roles == {"agent", "user"}
UserIds == {"user-id"}
RelayTypes == {"offer", "answer", "ice-candidate"}
\* message.data absent: destructuring it throws
NoData == [nodata |-> TRUE]

VARIABLES
  connections,   \* Map<string, WebRTCConnection>: id -> [role, alertId, userId]
  activeRooms,   \* Map<string, Set<string>>: alertId -> members in insertion order
  readyState,    \* socket.readyState of every connection's socket
  inbox,         \* frames written to each socket by socket.send
  nextId,        \* number of connections accepted so far
  nEvents,       \* number of steps taken so far
  log,           \* frames each client has written to its socket, in order
  handled,       \* positions of log[c] whose "message" event has been handled
  connectedClients,  \* routes.ts Map<string, {socket, userId?, role?, lat?, lng?}>
  clientState,       \* socket.readyState of every /ws client's socket
  clientInbox,       \* frames written to each /ws client's socket
  nextClientId,      \* number of /ws clients accepted so far
  pendingAlerts,     \* alerts whose POST handler awaits the push notifications
  alerts,            \* storage.ts MemStorage.alerts: the alerts stored (ids elided)
  lastStatus,        \* status of the last response of POST /api/alerts
  sockets,           \* id generation: the sockets accepted, each with its generated id
  entries,           \* id generation: the registry Map, generated id -> socket
  points,            \* distance model: the arguments <<lat1, lng1, lat2, lng2>>
  distance,          \* distance model: the value calculateDistance returned
  hooks,             \* use-audio.tsx useWebRTC: the state of every call client
  usock,             \* use-audio.tsx useSocket: the state of the /ws client hook
  page,              \* community.tsx CommunityPage: the state of the page
  store              \* MemStorage.alerts as a Map: id -> [status, resolvedAt]

\* the state of the /ws endpoint (routes.ts)
presenceVars == <<connectedClients, clientState, clientInbox, nextClientId, pendingAlerts,
                  alerts, lastStatus>>

\* the state of the id generation model
idVars == <<sockets, entries>>

\* the state of the distance model
geoVars == <<points, distance>>

\* the state of the browser clients
clientVars == <<hooks, usock, page>>

\* the state of the alert store
storeVars == <<store>>

vars == <<connections, activeRooms, readyState, inbox, nextId, nEvents, log, handled,
          presenceVars, idVars, geoVars, clientVars, storeVars>>

\* ------------------------------------------------------------ helpers
Range(s) == {s[i] : i \in 1..Len(s)}

\* Map.set / Map.delete on a function with a finite domain
MapSet(m, k, v) == [x \in DOMAIN m \cup {k} |-> IF x = k THEN v ELSE m[x]]
MapDelete(m, k) == [x \in DOMAIN m \ {k} |-> m[x]]

\* Set.add / Set.delete of a JS Set, which iterates in insertion order
SetAdd(s, e) == IF e \in Range(s) THEN s ELSE Append(s, e)
SetDelete(s, e) == SelectSeq(s, LAMBDA x : x # e)

\* The server state the handlers read and write
State == [connections |-> connections, activeRooms |-> activeRooms,
          readyState |-> readyState, inbox |-> inbox]

\* ------------------------------------------------------------- frames
JoinFrames ==
  {[type |-> "join-call", data |-> [alertId |-> a, role |-> r, userId |-> u],
    to |-> NoId, from |-> NoId] : a \in AlertIds, r \in Roles, u \in UserIds}
  \cup {[type |-> "join-call", data |-> NoData, to |-> NoId, from |-> NoId]}
LeaveFrames == {[type |-> "leave-call", data |-> NoData, to |-> NoId, from |-> NoId]}
RelayFrame(t, p, x, f) == [type |-> t, data |-> p, to |-> x, from |-> f]
\* payload and from field of an inbound relay frame: the client sets no from,
\* but a frame may carry one, naming any id
RelayInputs == {<<[sdp |-> "p1"], NoId>>, <<[sdp |-> "p2"], 1>>}
UnknownFrames == {[type |-> "unknown", data |-> NoData, to |-> NoId, from |-> NoId]}
RoomFrames == JoinFrames \cup LeaveFrames \cup UnknownFrames

\* ----------------------------------------------------------- handlers
\* mutant: the readyState check is dropped
sendMessageAnyState(S, connectionId, message) ==
  IF connectionId \in DOMAIN S.connections
  THEN [S EXCEPT !.inbox[connectionId] = Append(@, message)]
  ELSE S

\* mutant: the frame is put in front of what the socket has already been sent
sendMessageInFront(S, connectionId, message) ==
  IF connectionId \in DOMAIN S.connections /\ S.readyState[connectionId] = "OPEN"
  THEN [S EXCEPT !.inbox[connectionId] = <<message>> \o @]
  ELSE S

sendMessage(S, connectionId, message) ==
  IF connectionId \in DOMAIN S.connections /\ S.readyState[connectionId] = "OPEN"
  THEN [S EXCEPT !.inbox[connectionId] = Append(@, message)]
  ELSE S

\* mutant: excludeId is ignored, the sender hears its own broadcast
RECURSIVE forEachSendToAll(_, _, _, _)
forEachSendToAll(S, members, message, excludeId) ==
  IF members = <<>> THEN S
  ELSE forEachSendToAll(sendMessage(S, Head(members), message),
                        Tail(members), message, excludeId)

RECURSIVE forEachSend(_, _, _, _)
forEachSend(S, members, message, excludeId) ==
  IF members = <<>> THEN S
  ELSE forEachSend(IF Head(members) # excludeId
                   THEN sendMessage(S, Head(members), message)
                   ELSE S,
                   Tail(members), message, excludeId)

broadcastToRoom(S, alertId, message, excludeId) ==
  IF alertId \notin DOMAIN S.activeRooms THEN S
  ELSE forEachSend(S, S.activeRooms[alertId], message, excludeId)

\* mutant: the last matching member instead of the first
findUserLast(S, room) ==
  LET hits == SelectSeq(room, LAMBDA id :
                 id \in DOMAIN S.connections /\ S.connections[id].role = "user")
  IN IF hits = <<>> THEN NoId ELSE hits[Len(hits)]

\* Array.from(room).find(id => connections.get(id)?.role === "user")
findUser(S, room) ==
  LET hits == SelectSeq(room, LAMBDA id :
                 id \in DOMAIN S.connections /\ S.connections[id].role = "user")
  IN IF hits = <<>> THEN NoId ELSE Head(hits)

\* mutant: a user joining a room that holds an agent is told of the agent
handleJoinCallPairsEitherOrder(S, connectionId, message) ==
  IF connectionId \notin DOMAIN S.connections THEN S
  ELSE IF message.data = NoData THEN S
  ELSE
    LET alertId == message.data.alertId
        role == message.data.role
        userId == message.data.userId
        S1 == [S EXCEPT !.connections[connectionId] =
                 [alertId |-> alertId, role |-> role, userId |-> userId]]
        S2 == [S1 EXCEPT !.activeRooms =
                 MapSet(@, alertId,
                        SetAdd(IF alertId \in DOMAIN @ THEN @[alertId] ELSE <<>>,
                               connectionId))]
        S3 == broadcastToRoom(S2, alertId,
                 [type |-> "user-joined",
                  data |-> [connectionId |-> connectionId, role |-> role,
                            userId |-> userId]],
                 connectionId)
        userConnection == findUser(S3, S3.activeRooms[alertId])
        agents == {g \in Range(S3.activeRooms[alertId]) :
                     g \in DOMAIN S3.connections /\ S3.connections[g].role = "agent"}
    IN IF role = "agent" /\ userConnection # NoId
       THEN sendMessage(S3, userConnection,
                        [type |-> "agent-available",
                         data |-> [agentId |-> connectionId]])
       ELSE IF role = "user" /\ agents # {}
       THEN sendMessage(S3, connectionId,
                        [type |-> "agent-available",
                         data |-> [agentId |-> CHOOSE g \in agents : TRUE]])
       ELSE S3

handleJoinCall(S, connectionId, message) ==
  IF connectionId \notin DOMAIN S.connections THEN S
  ELSE IF message.data = NoData THEN S
  ELSE
    LET alertId == message.data.alertId
        role == message.data.role
        userId == message.data.userId
        S1 == [S EXCEPT !.connections[connectionId] =
                 [alertId |-> alertId, role |-> role, userId |-> userId]]
        S2 == [S1 EXCEPT !.activeRooms =
                 MapSet(@, alertId,
                        SetAdd(IF alertId \in DOMAIN @ THEN @[alertId] ELSE <<>>,
                               connectionId))]
        S3 == broadcastToRoom(S2, alertId,
                 [type |-> "user-joined",
                  data |-> [connectionId |-> connectionId, role |-> role,
                            userId |-> userId]],
                 connectionId)
        userConnection == findUser(S3, S3.activeRooms[alertId])
    IN IF role = "agent" /\ userConnection # NoId
       THEN sendMessage(S3, userConnection,
                        [type |-> "agent-available",
                         data |-> [agentId |-> connectionId]])
       ELSE S3

\* mutant: a from field of the inbound frame overrides the sender's id
handleOfferTrustsFrom(S, fromId, message) ==
  IF message.to # NoId /\ message.to \in DOMAIN S.connections
  THEN sendMessage(S, message.to,
                   [type |-> "offer", data |-> message.data,
                    from |-> IF message.from # NoId THEN message.from ELSE fromId])
  ELSE S

\* mutant: an offer is relayed only to a member of a room of the sender
handleOfferWithinRoom(S, fromId, message) ==
  IF /\ message.to # NoId /\ message.to \in DOMAIN S.connections
     /\ \E r \in DOMAIN S.activeRooms :
          {fromId, message.to} \subseteq Range(S.activeRooms[r])
  THEN sendMessage(S, message.to,
                   [type |-> "offer", data |-> message.data, from |-> fromId])
  ELSE S

handleOffer(S, fromId, message) ==
  IF message.to # NoId /\ message.to \in DOMAIN S.connections
  THEN sendMessage(S, message.to,
                   [type |-> "offer", data |-> message.data, from |-> fromId])
  ELSE S

handleAnswer(S, fromId, message) ==
  IF message.to # NoId /\ message.to \in DOMAIN S.connections
  THEN sendMessage(S, message.to,
                   [type |-> "answer", data |-> message.data, from |-> fromId])
  ELSE S

\* mutant: a frame for a target that is not live is answered with an error
handleIceCandidateReportsError(S, fromId, message) ==
  IF message.to # NoId /\ message.to \in DOMAIN S.connections
  THEN sendMessage(S, message.to,
                   [type |-> "ice-candidate", data |-> message.data, from |-> fromId])
  ELSE sendMessage(S, fromId, [type |-> "error", data |-> message.data])

handleIceCandidate(S, fromId, message) ==
  IF message.to # NoId /\ message.to \in DOMAIN S.connections
  THEN sendMessage(S, message.to,
                   [type |-> "ice-candidate", data |-> message.data, from |-> fromId])
  ELSE S

handleLeaveCall(S, connectionId) ==
  IF connectionId \notin DOMAIN S.connections THEN S
  ELSE IF S.connections[connectionId].alertId = undefined THEN S
  ELSE
    LET alertId == S.connections[connectionId].alertId
        S1 == IF alertId \in DOMAIN S.activeRooms
              THEN LET room == SetDelete(S.activeRooms[alertId], connectionId)
                   IN [S EXCEPT !.activeRooms =
                         IF room = <<>> THEN MapDelete(@, alertId)
                         ELSE MapSet(@, alertId, room)]
              ELSE S
    IN broadcastToRoom(S1, alertId,
          [type |-> "user-left",
           data |-> [connectionId |-> connectionId,
                     role |-> S.connections[connectionId].role]],
          connectionId)

\* mutant: the cleanup leaves the room but keeps the entry in the registry
handleConnectionCloseKeepsEntry(S, connectionId) ==
  IF connectionId \in DOMAIN S.connections
  THEN IF S.connections[connectionId].alertId # undefined
       THEN handleLeaveCall(S, connectionId)
       ELSE S
  ELSE S

handleConnectionClose(S, connectionId) ==
  IF connectionId \in DOMAIN S.connections
  THEN LET S1 == IF S.connections[connectionId].alertId # undefined
                 THEN handleLeaveCall(S, connectionId)
                 ELSE S
       IN [S1 EXCEPT !.connections = MapDelete(@, connectionId)]
  ELSE S

\* mutant: the frame of a connection that is not in the registry is dispatched
handleSignalingMessageOfAnyone(S, fromId, message) ==
  CASE message.type = "join-call" -> handleJoinCall(S, fromId, message)
    [] message.type = "offer" -> handleOffer(S, fromId, message)
    [] message.type = "answer" -> handleAnswer(S, fromId, message)
    [] message.type = "ice-candidate" -> handleIceCandidate(S, fromId, message)
    [] message.type = "leave-call" -> handleLeaveCall(S, fromId)
    [] OTHER -> S

handleSignalingMessage(S, fromId, message) ==
  IF fromId \notin DOMAIN S.connections THEN S
  ELSE CASE message.type = "join-call" -> handleJoinCall(S, fromId, message)
         [] message.type = "offer" -> handleOffer(S, fromId, message)
         [] message.type = "answer" -> handleAnswer(S, fromId, message)
         [] message.type = "ice-candidate" -> handleIceCandidate(S, fromId, message)
         [] message.type = "leave-call" -> handleLeaveCall(S, fromId)
         [] OTHER -> S

\* a frame JSON.parse rejects
MalformedFrame == [type |-> "malformed", data |-> NoData, to |-> NoId, from |-> NoId]

\* socket.on("message") of /webrtc: JSON.parse and handleSignalingMessage run
\* in one try block whose catch logs
onMessage(S, connectionId, message) ==
  IF message.type = "malformed" THEN S
  ELSE handleSignalingMessage(S, connectionId, message)

\* ------------------------------------------------------------ actions
Commit(S) ==
  /\ connections' = S.connections
  /\ activeRooms' = S.activeRooms
  /\ readyState' = S.readyState
  /\ inbox' = S.inbox

\* one more socket event is handled
Tick == nEvents < MaxEvents /\ nEvents' = nEvents + 1

\* ------------------------------------------------- browser clients
\* the pages that run the useWebRTC hook
HookIds == {1, 2}

\* useWebRTC right after the first render: no socket, no peer connection,
\* connectionId state null
InitHook ==
  [phase |-> "idle", ws |-> NoId, connectionId |-> NoId, closureId |-> NoId,
   alertId |-> undefined, role |-> undefined, read |-> 0, pc |-> FALSE,
   signalingState |-> "stable", offerFrom |-> NoId, localDescription |-> FALSE,
   sentIce |-> FALSE]

\* useSocket before its effect ran: socketRef.current null, no timer pending
InitSocket ==
  [mounted |-> FALSE, unmounted |-> FALSE, socketRef |-> NoId, isConnected |-> FALSE,
   live |-> {}, timers |-> 0]

\* CommunityPage at its first render: useState(true), no position yet
InitPage ==
  [communityMode |-> TRUE, hasLocation |-> FALSE, latitude |-> NoNumber,
   longitude |-> NoNumber, stale |-> TRUE]

InitClients ==
  /\ hooks = [h \in HookIds |-> InitHook]
  /\ usock = InitSocket
  /\ page = InitPage

\* the servers right after construction
InitServer ==
  /\ connections = <<>>
  /\ activeRooms = <<>>
  /\ readyState = [c \in ConnIds |-> "NONE"]
  /\ inbox = [c \in ConnIds |-> <<>>]
  /\ nextId = 0
  /\ nEvents = 0
  /\ log = [c \in ConnIds |-> <<>>]
  /\ handled = [c \in ConnIds |-> {}]
  /\ connectedClients = <<>>
  /\ clientState = [c \in ClientIds |-> "NONE"]
  /\ clientInbox = [c \in ClientIds |-> <<>>]
  /\ nextClientId = 0
  /\ pendingAlerts = <<>>
  /\ alerts = {}
  /\ lastStatus = NoStatus
  /\ sockets = <<>>
  /\ entries = <<>>
  /\ store = <<>>

Init ==
  /\ InitServer
  /\ InitClients
  /\ points = <<0, 0, 0, 0>>
  /\ distance = NoNumber

\* wss.on("connection"): the generated ids are taken to be distinct here, the
\* k-th connection gets id k; SpecIds examines the generator itself
Connection ==
  /\ Tick
  /\ nextId < MaxConn
  /\ LET connectionId == nextId + 1
         S1 == [State EXCEPT
                  !.readyState[connectionId] = "OPEN",
                  !.connections = MapSet(@, connectionId,
                     [alertId |-> undefined, role |-> "user", userId |-> undefined])]
     IN /\ Commit(sendMessage(S1, connectionId,
                    [type |-> "connection-established",
                     data |-> [connectionId |-> connectionId]]))
        /\ nextId' = connectionId
  /\ UNCHANGED <<log, handled, presenceVars, idVars, geoVars, clientVars, storeVars>>

\* socket.on("message")
OnMessage(c, message) ==
  /\ Tick
  /\ readyState[c] \in {"OPEN", "CLOSING"}
  /\ Commit(onMessage(State, c, message))
  /\ UNCHANGED <<nextId, log, handled, presenceVars, idVars, geoVars, clientVars, storeVars>>

\* the transport starts closing: readyState leaves OPEN before "close" is emitted
SocketClosing(c) ==
  /\ Tick
  /\ readyState[c] = "OPEN"
  /\ readyState' = [readyState EXCEPT ![c] = "CLOSING"]
  /\ UNCHANGED <<connections, activeRooms, inbox, nextId, log, handled, presenceVars, idVars, geoVars, clientVars, storeVars>>

\* the state handleConnectionClose leaves when "close" is emitted for c
closeEvent(S, c) == handleConnectionClose([S EXCEPT !.readyState[c] = "CLOSED"], c)

\* the state handleConnectionClose leaves when "error" is emitted for c
errorEvent(S, c) == handleConnectionClose([S EXCEPT !.readyState[c] = "CLOSING"], c)

\* socket.on("close")
OnClose(c) ==
  /\ Tick
  /\ readyState[c] \in {"OPEN", "CLOSING"}
  /\ Commit(closeEvent(State, c))
  /\ UNCHANGED <<nextId, log, handled, presenceVars, idVars, geoVars, clientVars, storeVars>>

\* socket.on("error"): emitted before "close"
OnError(c) ==
  /\ Tick
  /\ readyState[c] \in {"OPEN", "CLOSING"}
  /\ Commit(errorEvent(State, c))
  /\ UNCHANGED <<nextId, log, handled, presenceVars, idVars, geoVars, clientVars, storeVars>>

Next ==
  \/ Connection
  \/ \E c \in ConnIds, message \in RoomFrames : OnMessage(c, message)
  \/ \E c \in ConnIds : SocketClosing(c)
  \/ \E c \in ConnIds : OnClose(c)
  \/ \E c \in ConnIds : OnError(c)

Spec == Init /\ [][Next]_vars

\* ------------------------------------------- the relay seen from the clients
\* the targets clients address relay frames to: the first two connections, or none
RelayTargets == {1, 2, NoId}

\* The frames a client writes: an offer or a candidate to one of the targets,
\* with its payload numbered in send order, a join-call for room r1, a leave-call.
WireFrames(c) ==
  {[type |-> t, data |-> [seq |-> Len(log[c]) + 1], to |-> x, from |-> NoId] :
     t \in {"offer", "ice-candidate"}, x \in RelayTargets}
  \cup {[type |-> "join-call",
         data |-> [alertId |-> "r1", role |-> "user", userId |-> "user-id"],
         to |-> NoId, from |-> NoId]}
  \cup LeaveFrames

\* the number of frames written by all clients so far
RECURSIVE SumLen(_, _)
SumLen(f, D) == IF D = {} THEN 0
                ELSE LET d == CHOOSE x \in D : TRUE IN Len(f[d]) + SumLen(f, D \ {d})
Sent == SumLen(log, ConnIds)

\* webSocketRef.current.send(...): the frame is on its way to the server
ClientSend(c, message) ==
  /\ Tick
  /\ readyState[c] = "OPEN"
  /\ Sent < MaxSends
  /\ log' = [log EXCEPT ![c] = Append(@, message)]
  /\ UNCHANGED <<connections, activeRooms, readyState, inbox, nextId, handled,
               presenceVars, idVars, geoVars, clientVars, storeVars>>

\* mutant: frames are handled in any order
OnWireMessageAnyOrder(c) ==
  /\ Tick
  /\ readyState[c] \in {"OPEN", "CLOSING"}
  /\ \E i \in (1..Len(log[c])) \ handled[c] :
       /\ Commit(handleSignalingMessage(State, c, log[c][i]))
       /\ handled' = [handled EXCEPT ![c] = @ \cup {i}]
  /\ UNCHANGED <<nextId, log, presenceVars, idVars, geoVars, clientVars, storeVars>>

\* socket.on("message"): the transport hands over c's frames one by one, in the
\* order they were written, and each is handled to completion
OnWireMessage(c) ==
  /\ Tick
  /\ readyState[c] \in {"OPEN", "CLOSING"}
  /\ LET i == Cardinality(handled[c]) + 1
     IN /\ i <= Len(log[c])
        /\ Commit(handleSignalingMessage(State, c, log[c][i]))
        /\ handled' = [handled EXCEPT ![c] = @ \cup {i}]
  /\ UNCHANGED <<nextId, log, presenceVars, idVars, geoVars, clientVars, storeVars>>

NextRelay ==
  \/ Connection
  \/ \E c \in ConnIds : \E message \in WireFrames(c) : ClientSend(c, message)
  \/ \E c \in ConnIds : OnWireMessage(c)
  \/ \E c \in ConnIds : SocketClosing(c)
  \/ \E c \in ConnIds : OnClose(c)

SpecRelay == Init /\ [][NextRelay]_vars

\* ---------------------------------------------- vocabulary of the claims
RoomsOf(S, c) == {r \in DOMAIN S.activeRooms : c \in Range(S.activeRooms[r])}
Live(S, c) == c \in DOMAIN S.connections
Open(S, c) == Live(S, c) /\ S.readyState[c] = "OPEN"

\* the frames a step from S to T wrote to x's socket
NewFrames(S, T, x) == SubSeq(T.inbox[x], Len(S.inbox[x]) + 1, Len(T.inbox[x]))

NumJoined(frames, c) ==
  Len(SelectSeq(frames, LAMBDA m : m.type = "user-joined" /\ m.data.connectionId = c))
NumLeft(frames, c) ==
  Len(SelectSeq(frames, LAMBDA m : m.type = "user-left" /\ m.data.connectionId = c))
NumOfType(frames, t) == Len(SelectSeq(frames, LAMBDA m : m.type = t))

JoinFrame(a, r, u) ==
  [type |-> "join-call", data |-> [alertId |-> a, role |-> r, userId |-> u],
   to |-> NoId, from |-> NoId]
LeaveFrame == [type |-> "leave-call", data |-> NoData, to |-> NoId, from |-> NoId]

\* the socket events a departing connection can produce, in the orders they can occur
DepartureRuns ==
  {<<"leave">>, <<"close">>, <<"error">>, <<"leave", "close">>,
   <<"error", "close">>, <<"leave", "error", "close">>}

applyEvent(S, c, ev) ==
  CASE ev = "leave" -> handleSignalingMessage(S, c, LeaveFrame)
    [] ev = "close" -> closeEvent(S, c)
    [] ev = "error" -> errorEvent(S, c)

RECURSIVE applyEvents(_, _, _)
applyEvents(S, c, evs) ==
  IF evs = <<>> THEN S ELSE applyEvents(applyEvent(S, c, Head(evs)), c, Tail(evs))

\* ---------------------------------------------------------------- claims

\* C1: every connection id in any room's member set is a key of the live
\* connections map, after any sequence of connect, join-call, leave-call,
\* close and error events.
C1_RoomMembersAreLive ==
  \A r \in DOMAIN activeRooms : Range(activeRooms[r]) \subseteq DOMAIN connections

\* C2: when a room (with a proper id) holds exactly two members a and b and a
\* departs, b (with an open transport) receives exactly one user-left about a
\* over everything a's departure produces: leave-call, close, error, or
\* leave-call followed by close.
C2_ExactlyOnePeerLeft ==
  \A r \in DOMAIN activeRooms \cap RoomIds : \A a \in DOMAIN connections, b \in DOMAIN connections :
    (a # b /\ Range(activeRooms[r]) = {a, b} /\ readyState[b] = "OPEN")
    => \A run \in DepartureRuns :
         NumLeft(applyEvents(State, a, run).inbox[b], a) = NumLeft(inbox[b], a) + 1

\* C3: a leave-call from a live connection that is a member of no room changes
\* neither the room index nor the connection entries and sends nothing.
C3_LeaveIdempotent ==
  \A c \in DOMAIN connections :
    RoomsOf(State, c) = {} => handleSignalingMessage(State, c, LeaveFrame) = State

\* C4: handling close or error for a connection that is a member of a room
\* leaves its id in no room's member set and leaves no empty room, and a third
\* connection joining afterwards has frames sent only to live members of the
\* room it joins, never to the closed connection.
C4_CloseIsImplicitLeave ==
  \A c \in DOMAIN connections :
    RoomsOf(State, c) # {}
    => \A T \in {closeEvent(State, c), errorEvent(State, c)} :
         /\ RoomsOf(T, c) = {}
         /\ \A r \in DOMAIN T.activeRooms : T.activeRooms[r] # <<>>
         /\ \A d \in DOMAIN T.connections, a \in AlertIds, role \in Roles :
              LET U == handleSignalingMessage(T, d, JoinFrame(a, role, "user-id"))
              IN \A x \in ConnIds :
                   NewFrames(T, U, x) # <<>>
                   => x # c /\ Live(T, x) /\ x \in Range(U.activeRooms[a])

\* The case of C5: a is an open member of room r, b is live and open and has
\* never joined a room.
C5_Case(a, b, r) ==
  /\ a # b
  /\ r \in DOMAIN activeRooms /\ a \in Range(activeRooms[r])
  /\ Open(State, a) /\ Open(State, b)
  /\ connections[b].alertId = undefined /\ RoomsOf(State, b) = {}

\* C5 as stated: after b joins the room a is in, each of the two has received
\* exactly one user-joined about the other and none about itself.
C5_EachNotifiedOfTheOther ==
  \A a \in ConnIds, b \in ConnIds, r \in AlertIds, role \in Roles :
    C5_Case(a, b, r)
    => LET T == handleSignalingMessage(State, b, JoinFrame(r, role, "user-id"))
       IN /\ NumJoined(T.inbox[a], b) = 1 /\ NumJoined(T.inbox[b], a) = 1
          /\ NumJoined(T.inbox[a], a) = 0 /\ NumJoined(T.inbox[b], b) = 0

\* C5 amended: after b joins the room a is in, the earlier member a has received
\* exactly one user-joined about b and none about itself, and the joiner b has
\* received no user-joined at all; no connection ever receives a user-joined
\* about itself.
C5_OnlyEarlierMemberNotified ==
  /\ \A a \in ConnIds, b \in ConnIds, r \in AlertIds, role \in Roles :
       C5_Case(a, b, r)
       => LET T == handleSignalingMessage(State, b, JoinFrame(r, role, "user-id"))
          IN /\ NumJoined(T.inbox[a], b) = 1
             /\ NumJoined(T.inbox[a], a) = NumJoined(inbox[a], a)
             /\ NumOfType(T.inbox[b], "user-joined") = 0
  /\ \A c \in ConnIds : NumJoined(inbox[c], c) = 0

C5_Witness ==
  \E r \in AlertIds, a \in ConnIds, b \in ConnIds :
    /\ r \in DOMAIN activeRooms /\ activeRooms[r] = <<a, b>>
    /\ NumJoined(inbox[a], b) = 1
    /\ NumOfType(inbox[b], "user-joined") = 0 /\ Len(inbox[b]) = 1

\* C6: handling join(c, room) sends one user-joined carrying c's id and role to
\* every other member of that room with an open transport, and no user-joined
\* to c itself nor to any connection outside the room.
C6_JoinNotifiesOtherOpenMembers ==
  \A c \in DOMAIN connections, a \in AlertIds, role \in Roles, u \in UserIds :
    LET T == handleSignalingMessage(State, c, JoinFrame(a, role, u))
        joined == [type |-> "user-joined",
                   data |-> [connectionId |-> c, role |-> role, userId |-> u]]
    IN \A x \in ConnIds :
         SelectSeq(NewFrames(State, T, x), LAMBDA m : m.type = "user-joined")
           = IF x # c /\ x \in Range(T.activeRooms[a]) /\ Open(State, x)
             THEN <<joined>> ELSE <<>>

C6_Witness ==
  \E r \in AlertIds, a \in ConnIds, b \in ConnIds, d \in ConnIds :
    /\ r \in DOMAIN activeRooms /\ activeRooms[r] = <<a, b>>
    /\ Open(State, d) /\ RoomsOf(State, d) = {}
    /\ SelectSeq(inbox[a], LAMBDA m : m.type = "user-joined")
         = <<[type |-> "user-joined",
              data |-> [connectionId |-> b, role |-> connections[b].role,
                        userId |-> "user-id"]]>>
    /\ NumOfType(inbox[b], "user-joined") = 0
    /\ NumOfType(inbox[d], "user-joined") = 0

\* the first live user-role member of a room, in join order
C7_FirstUser(S, room, u) ==
  \E i \in 1..Len(room) :
    /\ room[i] = u /\ Live(S, u) /\ S.connections[u].role = "user"
    /\ \A j \in 1..(i - 1) :
         ~(Live(S, room[j]) /\ S.connections[room[j]].role = "user")

\* C7 as stated: a connection joining with role agent a room that holds a
\* user-role member is sent an agent-available naming a user present in the room.
C7_AgentIsInvited ==
  \A c \in DOMAIN connections, a \in AlertIds, u \in DOMAIN connections :
    (u # c /\ a \in DOMAIN activeRooms /\ u \in Range(activeRooms[a])
       /\ connections[u].role = "user" /\ Open(State, c) /\ Open(State, u))
    => LET T == handleSignalingMessage(State, c, JoinFrame(a, "agent", "user-id"))
       IN \E i \in 1..Len(NewFrames(State, T, c)) :
            LET m == NewFrames(State, T, c)[i]
            IN /\ m.type = "agent-available"
               /\ m.data.agentId \in Range(T.activeRooms[a])
               /\ Live(T, m.data.agentId)
               /\ T.connections[m.data.agentId].role = "user"

\* C7 amended: the agent-available goes to the first live user-role member of
\* the room (in join order) if its transport is open, it carries the joining
\* agent's id, and nobody else, the joining agent included, is sent one.
C7_UserIsToldOfAgent ==
  \A c \in DOMAIN connections, a \in AlertIds :
    LET T == handleSignalingMessage(State, c, JoinFrame(a, "agent", "user-id"))
    IN \A x \in ConnIds :
         SelectSeq(NewFrames(State, T, x), LAMBDA m : m.type = "agent-available")
           = IF C7_FirstUser(T, T.activeRooms[a], x) /\ Open(State, x)
             THEN <<[type |-> "agent-available", data |-> [agentId |-> c]]>>
             ELSE <<>>

C7_Witness ==
  \E r \in AlertIds, u \in ConnIds, v \in ConnIds, g \in ConnIds :
    /\ r \in DOMAIN activeRooms /\ activeRooms[r] = <<u, v, g>>
    /\ Live(State, u) /\ connections[u].role = "user"
    /\ Live(State, v) /\ connections[v].role = "user"
    /\ Live(State, g) /\ connections[g].role = "agent"
    /\ SelectSeq(inbox[u], LAMBDA m : m.type = "agent-available")
         = <<[type |-> "agent-available", data |-> [agentId |-> g]]>>
    /\ NumOfType(inbox[v], "agent-available") = 0
    /\ NumOfType(inbox[g], "agent-available") = 0

\* a relayed frame that came from f
IsRelayFrom(m, f) == m.type \in RelayTypes /\ m.from = f

\* C8: a relay frame (offer, answer, ice-candidate) from a live connection f to
\* a live connection x with an open transport appends to x's inbox exactly one
\* frame of the same type with the same payload and from = f, whatever from the
\* inbound frame carried, and writes nothing to any other connection.
C8_RelayDeliversToTargetOnly ==
  \A f \in DOMAIN connections, x \in DOMAIN connections :
    readyState[x] = "OPEN"
    => \A t \in RelayTypes, in \in RelayInputs :
         \A T \in {handleSignalingMessage(State, f, RelayFrame(t, in[1], x, in[2]))} :
           T.inbox = [inbox EXCEPT ![x] = Append(@, [type |-> t, data |-> in[1],
                                                     from |-> f])]

C8_Witness ==
  \E f \in ConnIds : \E x \in ConnIds \ {f}, i \in 1..MaxSends :
    /\ i \in handled[f] /\ log[f][i].type \in RelayTypes /\ log[f][i].to = x
    /\ inbox[x] = <<[type |-> "connection-established", data |-> [connectionId |-> x]],
                    [type |-> log[f][i].type, data |-> log[f][i].data, from |-> f]>>
    /\ \A y \in ConnIds \ {x} : Len(inbox[y]) <= 1

\* C9: a relay frame whose to is missing or names no live connection is
\* dropped: nothing is written to any connection and the connection map and
\* the room index are unchanged.
C9_RelayToDeadTargetIsDropped ==
  \A f \in DOMAIN connections, x \in (ConnIds \cup {NoId}) \ DOMAIN connections :
    \A t \in RelayTypes, in \in RelayInputs :
      handleSignalingMessage(State, f, RelayFrame(t, in[1], x, in[2])) = State

C9_Witness ==
  \E f \in DOMAIN connections, x \in ConnIds, i \in 1..MaxSends :
    /\ i \in handled[f] /\ log[f][i].type \in RelayTypes /\ log[f][i].to = x
    /\ readyState[x] = "CLOSED" /\ x \notin DOMAIN connections
    /\ \A y \in ConnIds : Len(inbox[y]) <= 1

RoomOps == {"join", "leave", "close", "error"}

applyRoomOp(S, c, r, op) ==
  IF op = "join" THEN handleSignalingMessage(S, c, JoinFrame(r, "user", "user-id"))
  ELSE applyEvent(S, c, op)

\* the peer-joined / peer-left frames among frames
Notifications(frames) ==
  SelectSeq(frames, LAMBDA m : m.type \in {"user-joined", "user-left"})

\* frame m is the notification of operation op by connection c
IsNoteOf(m, c, op) ==
  /\ m.type = (IF op = "join" THEN "user-joined" ELSE "user-left")
  /\ m.data.connectionId = c

IsPrefix(s, t) == Len(s) <= Len(t) /\ SubSeq(t, 1, Len(s)) = s

\* C11: a member m that stays in a room observes the notifications in the
\* order the broker processes the operations: whatever operation (join, leave,
\* close, error) is processed next, what m has already received stays in
\* front, and the notifications that are added are those of that operation.
C11_NotificationsInProcessingOrder ==
  \A r \in DOMAIN activeRooms \cap RoomIds, b \in DOMAIN connections, op \in RoomOps :
    \A T \in {applyRoomOp(State, b, r, op)} :
      \A m \in Range(activeRooms[r]) \ {b} :
        (m \in DOMAIN connections /\ readyState[m] = "OPEN")
        => /\ IsPrefix(inbox[m], T.inbox[m])
           /\ \A n \in Range(Notifications(NewFrames(State, T, m))) : IsNoteOf(n, b, op)

C11_Witness ==
  \E r \in RoomIds, m \in DOMAIN connections, a \in ConnIds, b \in ConnIds :
    /\ a # b /\ a # m /\ b # m
    /\ r \in DOMAIN activeRooms /\ m \in Range(activeRooms[r])
    /\ Len(Notifications(inbox[m])) = 2
    /\ IsNoteOf(Notifications(inbox[m])[1], a, "join")
    /\ IsNoteOf(Notifications(inbox[m])[2], b, "join")

\* ------------------------------------------ the /ws endpoint (routes.ts)
\* the state of the WebRTC signaling endpoint
webrtcVars == <<connections, activeRooms, readyState, inbox, nextId, log, handled>>

\* Coordinates in whole degrees.  91 and 181 are out of range.
Lats == {0, 1, 2, 91}
Lngs == {0, 1, 181}
ValidLats == {lat \in Lats : lat >= -90 /\ lat <= 90}
ValidLngs == {lng \in Lngs : lng >= -180 /\ lng <= 180}
ClientRoles == {"agent", "community", undefined}
\* radiusKm, in metres: nothing, the 200 m of the alert fan-out, one degree of arc
Radii == {0, 200, 111195}

\* the value of a floating-point operation that has no numeric result
NaN == 999999999

\* coordinate pairs within the range of createAlertSchema, among them a pair
\* of antipodal points
GeoPoints == {<<0, 0>>, <<1, 1>>, <<2, 1>>, <<8, 0>>, <<-8, 180>>, <<90, 0>>,
              <<-90, 0>>, <<0, 180>>}

\* haversine.ts calculateDistance, evaluated in IEEE-754 double arithmetic in
\* the order of the source, a = sin^2(dLat/2) + cos(lat1) cos(lat2) sin^2(dLng/2),
\* c = 2 atan2(sqrt(a), sqrt(1 - a)), R c with R = 6371 km, in metres; tabulated
\* by its four arguments over the grid above and GeoPoints. Math.sqrt of a
\* negative number is NaN, and so is everything computed from it
haversine ==
     (<<-90, 0, -90, 0>> :> 0)
  @@ (<<-90, 0, -8, 180>> :> 9117984)
  @@ (<<-90, 0, 0, 0>> :> 10007543)
  @@ (<<-90, 0, 0, 1>> :> 10007543)
  @@ (<<-90, 0, 0, 180>> :> 10007543)
  @@ (<<-90, 0, 0, 181>> :> 10007543)
  @@ (<<-90, 0, 1, 0>> :> 10118738)
  @@ (<<-90, 0, 1, 1>> :> 10118738)
  @@ (<<-90, 0, 1, 181>> :> 10118738)
  @@ (<<-90, 0, 2, 0>> :> 10229933)
  @@ (<<-90, 0, 2, 1>> :> 10229933)
  @@ (<<-90, 0, 2, 181>> :> 10229933)
  @@ (<<-90, 0, 8, 0>> :> 10897103)
  @@ (<<-90, 0, 90, 0>> :> 20015087)
  @@ (<<-90, 0, 91, 0>> :> 19903892)
  @@ (<<-90, 0, 91, 1>> :> 19903892)
  @@ (<<-90, 0, 91, 181>> :> 19903892)
  @@ (<<-8, 180, -90, 0>> :> 9117984)
  @@ (<<-8, 180, -8, 180>> :> 0)
  @@ (<<-8, 180, 0, 0>> :> 19125527)
  @@ (<<-8, 180, 0, 1>> :> 19118650)
  @@ (<<-8, 180, 0, 180>> :> 889559)
  @@ (<<-8, 180, 0, 181>> :> 896437)
  @@ (<<-8, 180, 1, 0>> :> 19236722)
  @@ (<<-8, 180, 1, 1>> :> 19228878)
  @@ (<<-8, 180, 1, 181>> :> 1006877)
  @@ (<<-8, 180, 2, 0>> :> 19347917)
  @@ (<<-8, 180, 2, 1>> :> 19338792)
  @@ (<<-8, 180, 2, 181>> :> 1117466)
  @@ (<<-8, 180, 8, 0>> :> 999999999)
  @@ (<<-8, 180, 90, 0>> :> 10897103)
  @@ (<<-8, 180, 91, 0>> :> 10785908)
  @@ (<<-8, 180, 91, 1>> :> 10785925)
  @@ (<<-8, 180, 91, 181>> :> 11008281)
  @@ (<<0, 0, -90, 0>> :> 10007543)
  @@ (<<0, 0, -8, 180>> :> 19125527)
  @@ (<<0, 0, 0, 0>> :> 0)
  @@ (<<0, 0, 0, 1>> :> 111195)
  @@ (<<0, 0, 0, 180>> :> 20015087)
  @@ (<<0, 0, 0, 181>> :> 19903892)
  @@ (<<0, 0, 1, 0>> :> 111195)
  @@ (<<0, 0, 1, 1>> :> 157249)
  @@ (<<0, 0, 1, 181>> :> 19857837)
  @@ (<<0, 0, 2, 0>> :> 222390)
  @@ (<<0, 0, 2, 1>> :> 248629)
  @@ (<<0, 0, 2, 181>> :> 19766457)
  @@ (<<0, 0, 8, 0>> :> 889559)
  @@ (<<0, 0, 90, 0>> :> 10007543)
  @@ (<<0, 0, 91, 0>> :> 10118738)
  @@ (<<0, 0, 91, 1>> :> 10118721)
  @@ (<<0, 0, 91, 181>> :> 9896365)
  @@ (<<0, 1, -90, 0>> :> 10007543)
  @@ (<<0, 1, -8, 180>> :> 19118650)
  @@ (<<0, 1, 0, 0>> :> 111195)
  @@ (<<0, 1, 0, 1>> :> 0)
  @@ (<<0, 1, 0, 180>> :> 19903892)
  @@ (<<0, 1, 0, 181>> :> 20015087)
  @@ (<<0, 1, 1, 0>> :> 157249)
  @@ (<<0, 1, 1, 1>> :> 111195)
  @@ (<<0, 1, 1, 181>> :> 19903892)
  @@ (<<0, 1, 2, 0>> :> 248629)
  @@ (<<0, 1, 2, 1>> :> 222390)
  @@ (<<0, 1, 2, 181>> :> 19792697)
  @@ (<<0, 1, 8, 0>> :> 896437)
  @@ (<<0, 1, 90, 0>> :> 10007543)
  @@ (<<0, 1, 91, 0>> :> 10118721)
  @@ (<<0, 1, 91, 1>> :> 10118738)
  @@ (<<0, 1, 91, 181>> :> 9896348)
  @@ (<<0, 180, -90, 0>> :> 10007543)
  @@ (<<0, 180, -8, 180>> :> 889559)
  @@ (<<0, 180, 0, 0>> :> 20015087)
  @@ (<<0, 180, 0, 1>> :> 19903892)
  @@ (<<0, 180, 0, 180>> :> 0)
  @@ (<<0, 180, 0, 181>> :> 111195)
  @@ (<<0, 180, 1, 0>> :> 19903892)
  @@ (<<0, 180, 1, 1>> :> 19857837)
  @@ (<<0, 180, 1, 181>> :> 157249)
  @@ (<<0, 180, 2, 0>> :> 19792697)
  @@ (<<0, 180, 2, 1>> :> 19766457)
  @@ (<<0, 180, 2, 181>> :> 248629)
  @@ (<<0, 180, 8, 0>> :> 19125527)
  @@ (<<0, 180, 90, 0>> :> 10007543)
  @@ (<<0, 180, 91, 0>> :> 9896348)
  @@ (<<0, 180, 91, 1>> :> 9896365)
  @@ (<<0, 180, 91, 181>> :> 10118721)
  @@ (<<0, 181, -90, 0>> :> 10007543)
  @@ (<<0, 181, -8, 180>> :> 896437)
  @@ (<<0, 181, 0, 0>> :> 19903892)
  @@ (<<0, 181, 0, 1>> :> 20015087)
  @@ (<<0, 181, 0, 180>> :> 111195)
  @@ (<<0, 181, 0, 181>> :> 0)
  @@ (<<0, 181, 1, 0>> :> 19857837)
  @@ (<<0, 181, 1, 1>> :> 19903892)
  @@ (<<0, 181, 1, 181>> :> 111195)
  @@ (<<0, 181, 2, 0>> :> 19766457)
  @@ (<<0, 181, 2, 1>> :> 19792697)
  @@ (<<0, 181, 2, 181>> :> 222390)
  @@ (<<0, 181, 8, 0>> :> 19118650)
  @@ (<<0, 181, 90, 0>> :> 10007543)
  @@ (<<0, 181, 91, 0>> :> 9896365)
  @@ (<<0, 181, 91, 1>> :> 9896348)
  @@ (<<0, 181, 91, 181>> :> 10118738)
  @@ (<<1, 0, -90, 0>> :> 10118738)
  @@ (<<1, 0, -8, 180>> :> 19236722)
  @@ (<<1, 0, 0, 0>> :> 111195)
  @@ (<<1, 0, 0, 1>> :> 157249)
  @@ (<<1, 0, 0, 180>> :> 19903892)
  @@ (<<1, 0, 0, 181>> :> 19857837)
  @@ (<<1, 0, 1, 0>> :> 0)
  @@ (<<1, 0, 1, 1>> :> 111178)
  @@ (<<1, 0, 1, 181>> :> 19766450)
  @@ (<<1, 0, 2, 0>> :> 111195)
  @@ (<<1, 0, 2, 1>> :> 157225)
  @@ (<<1, 0, 2, 181>> :> 19663463)
  @@ (<<1, 0, 8, 0>> :> 778364)
  @@ (<<1, 0, 90, 0>> :> 9896348)
  @@ (<<1, 0, 91, 0>> :> 10007543)
  @@ (<<1, 0, 91, 1>> :> 10007526)
  @@ (<<1, 0, 91, 181>> :> 9785170)
  @@ (<<1, 1, -90, 0>> :> 10118738)
  @@ (<<1, 1, -8, 180>> :> 19228878)
  @@ (<<1, 1, 0, 0>> :> 157249)
  @@ (<<1, 1, 0, 1>> :> 111195)
  @@ (<<1, 1, 0, 180>> :> 19857837)
  @@ (<<1, 1, 0, 181>> :> 19903892)
  @@ (<<1, 1, 1, 0>> :> 111178)
  @@ (<<1, 1, 1, 1>> :> 0)
  @@ (<<1, 1, 1, 181>> :> 19792697)
  @@ (<<1, 1, 2, 0>> :> 157225)
  @@ (<<1, 1, 2, 1>> :> 111195)
  @@ (<<1, 1, 2, 181>> :> 19681502)
  @@ (<<1, 1, 8, 0>> :> 786209)
  @@ (<<1, 1, 90, 0>> :> 9896348)
  @@ (<<1, 1, 91, 0>> :> 10007526)
  @@ (<<1, 1, 91, 1>> :> 10007543)
  @@ (<<1, 1, 91, 181>> :> 9785154)
  @@ (<<1, 181, -90, 0>> :> 10118738)
  @@ (<<1, 181, -8, 180>> :> 1006877)
  @@ (<<1, 181, 0, 0>> :> 19857837)
  @@ (<<1, 181, 0, 1>> :> 19903892)
  @@ (<<1, 181, 0, 180>> :> 157249)
  @@ (<<1, 181, 0, 181>> :> 111195)
  @@ (<<1, 181, 1, 0>> :> 19766450)
  @@ (<<1, 181, 1, 1>> :> 19792697)
  @@ (<<1, 181, 1, 181>> :> 0)
  @@ (<<1, 181, 2, 0>> :> 19663463)
  @@ (<<1, 181, 2, 1>> :> 19681502)
  @@ (<<1, 181, 2, 181>> :> 111195)
  @@ (<<1, 181, 8, 0>> :> 19008210)
  @@ (<<1, 181, 90, 0>> :> 9896348)
  @@ (<<1, 181, 91, 0>> :> 9785170)
  @@ (<<1, 181, 91, 1>> :> 9785154)
  @@ (<<1, 181, 91, 181>> :> 10007543)
  @@ (<<2, 0, -90, 0>> :> 10229933)
  @@ (<<2, 0, -8, 180>> :> 19347917)
  @@ (<<2, 0, 0, 0>> :> 222390)
  @@ (<<2, 0, 0, 1>> :> 248629)
  @@ (<<2, 0, 0, 180>> :> 19792697)
  @@ (<<2, 0, 0, 181>> :> 19766457)
  @@ (<<2, 0, 1, 0>> :> 111195)
  @@ (<<2, 0, 1, 1>> :> 157225)
  @@ (<<2, 0, 1, 181>> :> 19663463)
  @@ (<<2, 0, 2, 0>> :> 0)
  @@ (<<2, 0, 2, 1>> :> 111127)
  @@ (<<2, 0, 2, 181>> :> 19556624)
  @@ (<<2, 0, 8, 0>> :> 667170)
  @@ (<<2, 0, 90, 0>> :> 9785154)
  @@ (<<2, 0, 91, 0>> :> 9896348)
  @@ (<<2, 0, 91, 1>> :> 9896332)
  @@ (<<2, 0, 91, 181>> :> 9673976)
  @@ (<<2, 1, -90, 0>> :> 10229933)
  @@ (<<2, 1, -8, 180>> :> 19338792)
  @@ (<<2, 1, 0, 0>> :> 248629)
  @@ (<<2, 1, 0, 1>> :> 222390)
  @@ (<<2, 1, 0, 180>> :> 19766457)
  @@ (<<2, 1, 0, 181>> :> 19792697)
  @@ (<<2, 1, 1, 0>> :> 157225)
  @@ (<<2, 1, 1, 1>> :> 111195)
  @@ (<<2, 1, 1, 181>> :> 19681502)
  @@ (<<2, 1, 2, 0>> :> 111127)
  @@ (<<2, 1, 2, 1>> :> 0)
  @@ (<<2, 1, 2, 181>> :> 19570307)
  @@ (<<2, 1, 8, 0>> :> 676294)
  @@ (<<2, 1, 90, 0>> :> 9785154)
  @@ (<<2, 1, 91, 0>> :> 9896332)
  @@ (<<2, 1, 91, 1>> :> 9896348)
  @@ (<<2, 1, 91, 181>> :> 9673959)
  @@ (<<2, 181, -90, 0>> :> 10229933)
  @@ (<<2, 181, -8, 180>> :> 1117466)
  @@ (<<2, 181, 0, 0>> :> 19766457)
  @@ (<<2, 181, 0, 1>> :> 19792697)
  @@ (<<2, 181, 0, 180>> :> 248629)
  @@ (<<2, 181, 0, 181>> :> 222390)
  @@ (<<2, 181, 1, 0>> :> 19663463)
  @@ (<<2, 181, 1, 1>> :> 19681502)
  @@ (<<2, 181, 1, 181>> :> 111195)
  @@ (<<2, 181, 2, 0>> :> 19556624)
  @@ (<<2, 181, 2, 1>> :> 19570307)
  @@ (<<2, 181, 2, 181>> :> 0)
  @@ (<<2, 181, 8, 0>> :> 18897621)
  @@ (<<2, 181, 90, 0>> :> 9785154)
  @@ (<<2, 181, 91, 0>> :> 9673976)
  @@ (<<2, 181, 91, 1>> :> 9673959)
  @@ (<<2, 181, 91, 181>> :> 9896348)
  @@ (<<8, 0, -90, 0>> :> 10897103)
  @@ (<<8, 0, -8, 180>> :> 999999999)
  @@ (<<8, 0, 0, 0>> :> 889559)
  @@ (<<8, 0, 0, 1>> :> 896437)
  @@ (<<8, 0, 0, 180>> :> 19125527)
  @@ (<<8, 0, 0, 181>> :> 19118650)
  @@ (<<8, 0, 1, 0>> :> 778364)
  @@ (<<8, 0, 1, 1>> :> 786209)
  @@ (<<8, 0, 1, 181>> :> 19008210)
  @@ (<<8, 0, 2, 0>> :> 667170)
  @@ (<<8, 0, 2, 1>> :> 676294)
  @@ (<<8, 0, 2, 181>> :> 18897621)
  @@ (<<8, 0, 8, 0>> :> 0)
  @@ (<<8, 0, 90, 0>> :> 9117984)
  @@ (<<8, 0, 91, 0>> :> 9229179)
  @@ (<<8, 0, 91, 1>> :> 9229162)
  @@ (<<8, 0, 91, 181>> :> 9006806)
  @@ (<<90, 0, -90, 0>> :> 20015087)
  @@ (<<90, 0, -8, 180>> :> 10897103)
  @@ (<<90, 0, 0, 0>> :> 10007543)
  @@ (<<90, 0, 0, 1>> :> 10007543)
  @@ (<<90, 0, 0, 180>> :> 10007543)
  @@ (<<90, 0, 0, 181>> :> 10007543)
  @@ (<<90, 0, 1, 0>> :> 9896348)
  @@ (<<90, 0, 1, 1>> :> 9896348)
  @@ (<<90, 0, 1, 181>> :> 9896348)
  @@ (<<90, 0, 2, 0>> :> 9785154)
  @@ (<<90, 0, 2, 1>> :> 9785154)
  @@ (<<90, 0, 2, 181>> :> 9785154)
  @@ (<<90, 0, 8, 0>> :> 9117984)
  @@ (<<90, 0, 90, 0>> :> 0)
  @@ (<<90, 0, 91, 0>> :> 111195)
  @@ (<<90, 0, 91, 1>> :> 111195)
  @@ (<<90, 0, 91, 181>> :> 111195)
  @@ (<<91, 0, -90, 0>> :> 19903892)
  @@ (<<91, 0, -8, 180>> :> 10785908)
  @@ (<<91, 0, 0, 0>> :> 10118738)
  @@ (<<91, 0, 0, 1>> :> 10118721)
  @@ (<<91, 0, 0, 180>> :> 9896348)
  @@ (<<91, 0, 0, 181>> :> 9896365)
  @@ (<<91, 0, 1, 0>> :> 10007543)
  @@ (<<91, 0, 1, 1>> :> 10007526)
  @@ (<<91, 0, 1, 181>> :> 9785170)
  @@ (<<91, 0, 2, 0>> :> 9896348)
  @@ (<<91, 0, 2, 1>> :> 9896332)
  @@ (<<91, 0, 2, 181>> :> 9673976)
  @@ (<<91, 0, 8, 0>> :> 9229179)
  @@ (<<91, 0, 90, 0>> :> 111195)
  @@ (<<91, 0, 91, 0>> :> 0)
  @@ (<<91, 0, 91, 1>> :> 1941)
  @@ (<<91, 0, 91, 181>> :> 222381)
  @@ (<<91, 1, -90, 0>> :> 19903892)
  @@ (<<91, 1, -8, 180>> :> 10785925)
  @@ (<<91, 1, 0, 0>> :> 10118721)
  @@ (<<91, 1, 0, 1>> :> 10118738)
  @@ (<<91, 1, 0, 180>> :> 9896365)
  @@ (<<91, 1, 0, 181>> :> 9896348)
  @@ (<<91, 1, 1, 0>> :> 10007526)
  @@ (<<91, 1, 1, 1>> :> 10007543)
  @@ (<<91, 1, 1, 181>> :> 9785154)
  @@ (<<91, 1, 2, 0>> :> 9896332)
  @@ (<<91, 1, 2, 1>> :> 9896348)
  @@ (<<91, 1, 2, 181>> :> 9673959)
  @@ (<<91, 1, 8, 0>> :> 9229162)
  @@ (<<91, 1, 90, 0>> :> 111195)
  @@ (<<91, 1, 91, 0>> :> 1941)
  @@ (<<91, 1, 91, 1>> :> 0)
  @@ (<<91, 1, 91, 181>> :> 222390)
  @@ (<<91, 181, -90, 0>> :> 19903892)
  @@ (<<91, 181, -8, 180>> :> 11008281)
  @@ (<<91, 181, 0, 0>> :> 9896365)
  @@ (<<91, 181, 0, 1>> :> 9896348)
  @@ (<<91, 181, 0, 180>> :> 10118721)
  @@ (<<91, 181, 0, 181>> :> 10118738)
  @@ (<<91, 181, 1, 0>> :> 9785170)
  @@ (<<91, 181, 1, 1>> :> 9785154)
  @@ (<<91, 181, 1, 181>> :> 10007543)
  @@ (<<91, 181, 2, 0>> :> 9673976)
  @@ (<<91, 181, 2, 1>> :> 9673959)
  @@ (<<91, 181, 2, 181>> :> 9896348)
  @@ (<<91, 181, 8, 0>> :> 9006806)
  @@ (<<91, 181, 90, 0>> :> 111195)
  @@ (<<91, 181, 91, 0>> :> 222381)
  @@ (<<91, 181, 91, 1>> :> 222390)
  @@ (<<91, 181, 91, 181>> :> 0)

calculateDistance(lat1, lng1, lat2, lng2) == haversine[<<lat1, lng1, lat2, lng2>>]

\* JavaScript truthiness of an optional number
Truthy(v) == v # NoNumber /\ v # 0

\* the part of the server state the /ws handlers read and write
PState == [connectedClients |-> connectedClients, clientState |-> clientState,
           clientInbox |-> clientInbox]

\* Map.forEach visits the entries in insertion order; ids are handed out in
\* increasing order, so that is the order of the ids
RECURSIVE SortedSeq(_)
SortedSeq(D) ==
  IF D = {} THEN <<>>
  ELSE LET lo == CHOOSE x \in D : \A y \in D : x <= y
       IN <<lo>> \o SortedSeq(D \ {lo})

ClientOrder(S) == SortedSeq(DOMAIN S.connectedClients)

sendToClient(S, clientId, message) ==
  IF clientId \in DOMAIN S.connectedClients /\ S.clientState[clientId] = "OPEN"
  THEN [S EXCEPT !.clientInbox[clientId] = Append(@, message)]
  ELSE S

\* mutant: the loop stops at the first recipient whose socket is not open
RECURSIVE sendToEachUntilFailure(_, _, _)
sendToEachUntilFailure(S, ids, message) ==
  IF ids = <<>> THEN S
  ELSE IF S.clientState[Head(ids)] # "OPEN" THEN S
  ELSE sendToEachUntilFailure(sendToClient(S, Head(ids), message), Tail(ids), message)

RECURSIVE sendToEach(_, _, _)
sendToEach(S, ids, message) ==
  IF ids = <<>> THEN S
  ELSE sendToEach(sendToClient(S, Head(ids), message), Tail(ids), message)

\* mutant: clients that have not registered a role are skipped
broadcastToRegistered(S, message) ==
  sendToEach(S, SelectSeq(ClientOrder(S),
                          LAMBDA id : S.connectedClients[id].role # undefined),
             message)

broadcastToAll(S, message) == sendToEach(S, ClientOrder(S), message)

\* mutant: clients without a role are notified as well
notifyAgentsAndUnset(S, message) ==
  sendToEach(S, SelectSeq(ClientOrder(S),
                          LAMBDA id : S.connectedClients[id].role \in {"agent", undefined}),
             message)

notifyAgents(S, message) ==
  sendToEach(S, SelectSeq(ClientOrder(S),
                          LAMBDA id : S.connectedClients[id].role = "agent"),
             message)

IsNearby(client, lat, lng, radiusKm) ==
  /\ Truthy(client.lat) /\ Truthy(client.lng) /\ client.role = "community"
  /\ calculateDistance(lat, lng, client.lat, client.lng) <= radiusKm

findClientsWithinRadius(S, lat, lng, radiusKm) ==
  LET near == SelectSeq(ClientOrder(S),
                LAMBDA id : IsNearby(S.connectedClients[id], lat, lng, radiusKm))
  IN [i \in 1..Len(near) |->
        [id |-> near[i], lat |-> S.connectedClients[near[i]].lat,
         lng |-> S.connectedClients[near[i]].lng]]

\* POST /api/alerts, up to the first await after the fan-out
RECURSIVE sendAlertToEach(_, _, _)
sendAlertToEach(S, nearbyClients, alert) ==
  IF nearbyClients = <<>> THEN S
  ELSE LET client == Head(nearbyClients)
       IN sendAlertToEach(
            sendToClient(S, client.id,
              [type |-> "alert:new",
               data |-> [alert |-> alert,
                         distance |-> calculateDistance(alert.lat, alert.lng,
                                                        client.lat, client.lng),
                         playRingtone |-> TRUE]]),
            Tail(nearbyClients), alert)

alertFanOut(S, alert) ==
  sendAlertToEach(S, findClientsWithinRadius(S, alert.lat, alert.lng, 200), alert)

\* the frames a /ws client can send
RegisterFrames ==
  {[type |-> "register", userId |-> u, role |-> r, lat |-> lat, lng |-> lng] :
     u \in {"user-id", undefined}, r \in ClientRoles,
     lat \in Lats \cup {NoNumber}, lng \in Lngs \cup {NoNumber}}
LocationFrames ==
  {[type |-> "location-update", lat |-> lat, lng |-> lng] :
     lat \in Lats \cup {NoNumber}, lng \in Lngs \cup {NoNumber}}
OtherFrames == {[type |-> "ping"], [type |-> "unknown"], [type |-> "malformed"]}

\* mutant: a heartbeat resets the role of the entry
handleWebSocketMessageResetsOnPing(S, clientId, message) ==
  IF clientId \notin DOMAIN S.connectedClients THEN S
  ELSE CASE message.type = "register" ->
              [S EXCEPT !.connectedClients[clientId] =
                 [userId |-> message.userId, role |-> message.role,
                  lat |-> message.lat, lng |-> message.lng]]
         [] message.type = "location-update" ->
              [S EXCEPT !.connectedClients[clientId].lat = message.lat,
                        !.connectedClients[clientId].lng = message.lng]
         [] message.type = "ping" ->
              sendToClient([S EXCEPT !.connectedClients[clientId].role = undefined],
                           clientId, [type |-> "pong"])
         [] OTHER -> S

\* mutant: a register frame without coordinate keeps the recorded one
handleWebSocketMessageKeepsCoordinate(S, clientId, message) ==
  IF clientId \notin DOMAIN S.connectedClients THEN S
  ELSE CASE message.type = "register" ->
              [S EXCEPT !.connectedClients[clientId] =
                 [userId |-> message.userId, role |-> message.role,
                  lat |-> IF message.lat = NoNumber THEN @.lat ELSE message.lat,
                  lng |-> IF message.lng = NoNumber THEN @.lng ELSE message.lng]]
         [] message.type = "location-update" ->
              [S EXCEPT !.connectedClients[clientId].lat = message.lat,
                        !.connectedClients[clientId].lng = message.lng]
         [] message.type = "ping" -> sendToClient(S, clientId, [type |-> "pong"])
         [] OTHER -> S

\* mutant: the answer to a heartbeat goes to every registered client
handleWebSocketMessagePongToAll(S, clientId, message) ==
  IF clientId \notin DOMAIN S.connectedClients THEN S
  ELSE CASE message.type = "register" ->
              [S EXCEPT !.connectedClients[clientId] =
                 [userId |-> message.userId, role |-> message.role,
                  lat |-> message.lat, lng |-> message.lng]]
         [] message.type = "location-update" ->
              [S EXCEPT !.connectedClients[clientId].lat = message.lat,
                        !.connectedClients[clientId].lng = message.lng]
         [] message.type = "ping" -> broadcastToAll(S, [type |-> "pong"])
         [] OTHER -> S

handleWebSocketMessage(S, clientId, message) ==
  IF clientId \notin DOMAIN S.connectedClients THEN S
  ELSE CASE message.type = "register" ->
              [S EXCEPT !.connectedClients[clientId] =
                 [userId |-> message.userId, role |-> message.role,
                  lat |-> message.lat, lng |-> message.lng]]
         [] message.type = "location-update" ->
              [S EXCEPT !.connectedClients[clientId].lat = message.lat,
                        !.connectedClients[clientId].lng = message.lng]
         [] message.type = "ping" -> sendToClient(S, clientId, [type |-> "pong"])
         [] OTHER -> S

\* socket.on("message"): a frame JSON.parse rejects is caught and logged
messageEvent(S, clientId, message) ==
  IF message.type = "malformed" THEN S
  ELSE handleWebSocketMessage(S, clientId, message)

clientCloseEvent(S, clientId) ==
  [S EXCEPT !.clientState[clientId] = "CLOSED",
            !.connectedClients = MapDelete(@, clientId)]

\* mutant: the error handler leaves the entry in the registry
clientErrorEventKeepsEntry(S, clientId) ==
  [S EXCEPT !.clientState[clientId] = "CLOSING"]

clientErrorEvent(S, clientId) ==
  [S EXCEPT !.clientState[clientId] = "CLOSING",
            !.connectedClients = MapDelete(@, clientId)]

PCommit(S) ==
  /\ connectedClients' = S.connectedClients
  /\ clientState' = S.clientState
  /\ clientInbox' = S.clientInbox

\* wss.on("connection") of /ws
ClientConnection ==
  /\ Tick
  /\ nextClientId < MaxClients
  /\ LET clientId == nextClientId + 1
         S1 == [PState EXCEPT
                  !.clientState[clientId] = "OPEN",
                  !.connectedClients = MapSet(@, clientId,
                     [userId |-> undefined, role |-> undefined,
                      lat |-> NoNumber, lng |-> NoNumber])]
     IN /\ PCommit(sendToClient(S1, clientId,
                     [type |-> "connected", clientId |-> clientId]))
        /\ nextClientId' = clientId
  /\ UNCHANGED <<pendingAlerts, alerts, lastStatus, webrtcVars, idVars, geoVars, clientVars, storeVars>>

ClientMessage(c, message) ==
  /\ Tick
  /\ clientState[c] \in {"OPEN", "CLOSING"}
  /\ PCommit(messageEvent(PState, c, message))
  /\ UNCHANGED <<nextClientId, pendingAlerts, alerts, lastStatus, webrtcVars, idVars, geoVars, clientVars, storeVars>>

ClientSocketClosing(c) ==
  /\ Tick
  /\ clientState[c] = "OPEN"
  /\ clientState' = [clientState EXCEPT ![c] = "CLOSING"]
  /\ UNCHANGED <<connectedClients, clientInbox, nextClientId, pendingAlerts, alerts, lastStatus, webrtcVars, idVars, geoVars, clientVars, storeVars>>

ClientClose(c) ==
  /\ Tick
  /\ clientState[c] \in {"OPEN", "CLOSING"}
  /\ PCommit(clientCloseEvent(PState, c))
  /\ UNCHANGED <<nextClientId, pendingAlerts, alerts, lastStatus, webrtcVars, idVars, geoVars, clientVars, storeVars>>

ClientError(c) ==
  /\ Tick
  /\ clientState[c] \in {"OPEN", "CLOSING"}
  /\ PCommit(clientErrorEvent(PState, c))
  /\ UNCHANGED <<nextClientId, pendingAlerts, alerts, lastStatus, webrtcVars, idVars, geoVars, clientVars, storeVars>>

\* the state POST /api/alerts reads and writes
AState == [presence |-> PState, alerts |-> alerts, pendingAlerts |-> pendingAlerts,
           lastStatus |-> lastStatus]

\* mutant: the schema checks the latitude only
createAlertSchemaLatOnly(body) ==
  body.lat # NoNumber /\ body.lat >= -90 /\ body.lat <= 90

\* createAlertSchema.parse(req.body) returns: lat and lng are required numbers,
\* lat within [-90, 90] and lng within [-180, 180]; otherwise it throws
createAlertSchema(body) ==
  /\ body.lat # NoNumber /\ body.lat >= -90 /\ body.lat <= 90
  /\ body.lng # NoNumber /\ body.lng >= -180 /\ body.lng <= 180

\* storage.createAlert: this.alerts.set(id, alert)
createAlert(A, insertAlert) == [A EXCEPT !.alerts = @ \cup {insertAlert}]

\* POST /api/alerts up to the awaited sendEmergencyAlert: a body the schema
\* rejects goes to the catch block, which answers 400; otherwise the alert is
\* stored and sent to the nearby clients, and the push notifications start
postAlert(A, body) ==
  IF ~createAlertSchema(body) THEN [A EXCEPT !.lastStatus = 400]
  ELSE LET A1 == createAlert(A, body)
       IN [A1 EXCEPT !.presence = alertFanOut(@, body),
                     !.pendingAlerts = Append(@, body)]

\* what can happen inside sendEmergencyAlert: every push is sent, the lookup
\* storage.getPushSubscriptionsNearLocation throws, or one push throws
PushOutcomes == {"sent", "lookup-throws", "push-throws"}

\* mutant: a failure rejects the promise of sendEmergencyAlert
sendEmergencyAlertRethrows(outcome) ==
  IF outcome = "sent" THEN "resolved" ELSE "rejected"

\* push.ts sendEmergencyAlert: the function body is one try block whose catch
\* logs, and each push has its own try block whose catch logs; the promise
\* resolves whatever happened
sendEmergencyAlert(outcome) ==
  CASE outcome = "lookup-throws" -> "resolved"
    [] outcome = "push-throws" -> "resolved"
    [] OTHER -> "resolved"

\* POST /api/alerts after the awaited sendEmergencyAlert: notifyAgents, the
\* awaited sendAgentAlert (it logs) and the 201 response; a rejected promise goes
\* to the catch block, which answers 400
alertPushed(A, outcome) ==
  LET alert == Head(A.pendingAlerts)
      A1 == [A EXCEPT !.pendingAlerts = Tail(@)]
  IN IF sendEmergencyAlert(outcome) = "rejected"
     THEN [A1 EXCEPT !.lastStatus = 400]
     ELSE [A1 EXCEPT !.presence = notifyAgents(@, [type |-> "alert:new", data |-> alert]),
                     !.lastStatus = 201]

ACommit(A) ==
  /\ PCommit(A.presence)
  /\ alerts' = A.alerts
  /\ pendingAlerts' = A.pendingAlerts
  /\ lastStatus' = A.lastStatus

\* POST /api/alerts, first part
PostAlert(body) ==
  /\ Tick
  /\ ACommit(postAlert(AState, body))
  /\ UNCHANGED <<nextClientId, webrtcVars, idVars, geoVars, clientVars, storeVars>>

\* POST /api/alerts, second part: sendEmergencyAlert has settled
AlertNotifyAgents ==
  /\ Tick
  /\ pendingAlerts # <<>>
  /\ \E outcome \in PushOutcomes : ACommit(alertPushed(AState, outcome))
  /\ UNCHANGED <<nextClientId, webrtcVars, idVars, geoVars, clientVars, storeVars>>

\* PATCH /api/alerts/:id and POST /api/community-responses
BroadcastAll(message) ==
  /\ Tick
  /\ PCommit(broadcastToAll(PState, message))
  /\ UNCHANGED <<nextClientId, pendingAlerts, alerts, lastStatus, webrtcVars, idVars, geoVars, clientVars, storeVars>>

\* POST /api/callback-requests
PostCallback ==
  /\ Tick
  /\ PCommit(notifyAgents(PState, [type |-> "callback:new"]))
  /\ UNCHANGED <<nextClientId, pendingAlerts, alerts, lastStatus, webrtcVars, idVars, geoVars, clientVars, storeVars>>

\* the frames and requests that drive the /ws endpoint in a run
ClientTraffic ==
  {[type |-> "register", userId |-> "user-id", role |-> r, lat |-> p[1], lng |-> p[2]] :
     r \in {"agent", "community"}, p \in {<<1, 1>>, <<0, 1>>, <<91, 181>>}}
  \cup {[type |-> "register", userId |-> undefined, role |-> undefined,
         lat |-> NoNumber, lng |-> NoNumber],
        [type |-> "location-update", lat |-> 2, lng |-> 1]}
  \cup OtherFrames
AlertTraffic == {[lat |-> 1, lng |-> 1]}
BroadcastTraffic == {[type |-> "alert:updated"], [type |-> "community:response"]}

NextPresence ==
  \/ ClientConnection
  \/ \E c \in ClientIds, message \in ClientTraffic : ClientMessage(c, message)
  \/ \E c \in ClientIds : ClientSocketClosing(c)
  \/ \E c \in ClientIds : ClientClose(c)
  \/ \E c \in ClientIds : ClientError(c)
  \/ \E alert \in AlertTraffic : PostAlert(alert)
  \/ AlertNotifyAgents
  \/ \E message \in BroadcastTraffic : BroadcastAll(message)
  \/ PostCallback

SpecPresence == Init /\ [][NextPresence]_vars

\* ------------------------------------------- vocabulary of the /ws claims
\* alerts pass createAlertSchema: their coordinate is in range
Alerts == {[lat |-> lat, lng |-> lng] : lat \in ValidLats, lng \in ValidLngs}

\* the three fan-outs of routes.ts
FanOutKinds == {"nearby", "all", "agents"}

\* the fan-out calls: the nearby fan-out for every alert; the other two do not
\* look at the alert
FanOutCalls ==
  {<<"nearby", alert>> : alert \in Alerts}
  \cup {<<kind, [lat |-> 1, lng |-> 1]>> : kind \in {"all", "agents"}}

fanOut(S, kind, alert) ==
  CASE kind = "nearby" -> alertFanOut(S, alert)
    [] kind = "all" -> broadcastToAll(S, [type |-> "alert:updated"])
    [] kind = "agents" -> notifyAgents(S, [type |-> "alert:new", data |-> alert])

\* the entries a fan-out writes to
fanOutRecipients(S, kind, alert) ==
  CASE kind = "nearby" ->
         {findClientsWithinRadius(S, alert.lat, alert.lng, 200)[i].id :
            i \in 1..Len(findClientsWithinRadius(S, alert.lat, alert.lng, 200))}
    [] kind = "all" -> DOMAIN S.connectedClients
    [] kind = "agents" ->
         {id \in DOMAIN S.connectedClients : S.connectedClients[id].role = "agent"}

\* the write to c fails: its transport is closing or closed
WriteFails(S, c) == S.clientState[c] # "OPEN"

NewClientFrames(S, T, c) ==
  SubSeq(T.clientInbox[c], Len(S.clientInbox[c]) + 1, Len(T.clientInbox[c]))

\* ---------------------------------------------------------------- C12
\* C12: for every event coordinate and radius, the proximity query returns
\* exactly the entries whose role is community, that have a recorded coordinate
\* in the valid range, and whose distance to the event is at most the radius.
C12_ProximityQueryIsExact ==
  \A lat \in ValidLats, lng \in ValidLngs, radiusKm \in Radii :
    LET found == findClientsWithinRadius(PState, lat, lng, radiusKm)
        ids == {found[i].id : i \in 1..Len(found)}
    IN \A c \in DOMAIN connectedClients :
         (connectedClients[c].lat \in ValidLats /\ connectedClients[c].lng \in ValidLngs)
         => (c \in ids <=>
               /\ connectedClients[c].role = "community"
               /\ calculateDistance(lat, lng, connectedClients[c].lat,
                                    connectedClients[c].lng) <= radiusKm)

\* ---------------------------------------------------------------- C13
\* C13: in a fan-out (nearby alert, broadcast to all, notify agents) over
\* recipients some of whose writes fail, every recipient whose write does not
\* fail still receives the message, once.
C13_FailureDoesNotAbortFanOut ==
  (\E f \in DOMAIN connectedClients : WriteFails(PState, f))
  => \A call \in FanOutCalls :
       \A to \in {fanOutRecipients(PState, call[1], call[2])} :
         (\E f \in to : WriteFails(PState, f))
         => \A T \in {fanOut(PState, call[1], call[2])} :
              \A c \in to :
                ~WriteFails(PState, c)
                => /\ Len(NewClientFrames(PState, T, c)) = 1
                   /\ NewClientFrames(PState, T, c)[1].type
                        = (IF call[1] = "all" THEN "alert:updated" ELSE "alert:new")

C13_Witness ==
  \E f \in DOMAIN connectedClients, c \in DOMAIN connectedClients :
    /\ f < c /\ WriteFails(PState, f) /\ ~WriteFails(PState, c)
    /\ Len(clientInbox[f]) = 1
    /\ Len(clientInbox[c]) = 2 /\ clientInbox[c][2].type = "alert:updated"

\* ---------------------------------------------------------------- C14
\* C14: after a fan-out in which the writes to the entries F fail, exactly the
\* entries of F have been removed from the registry.
C14_FailedWritesArePruned ==
  \A call \in FanOutCalls :
    LET T == fanOut(PState, call[1], call[2])
        F == {c \in fanOutRecipients(PState, call[1], call[2]) : WriteFails(PState, c)}
    IN DOMAIN T.connectedClients = DOMAIN connectedClients \ F

\* ---------------------------------------------------------------- C15
\* C15: broadcastToAll writes the message exactly once to every entry of the
\* registry whose socket is open, whatever its role and location, and to no
\* other socket; the registry is unchanged.
C15_BroadcastReachesAllOpen ==
  \A message \in BroadcastTraffic :
    \A T \in {broadcastToAll(PState, message)} :
       /\ T.connectedClients = connectedClients
       /\ \A c \in ClientIds :
            T.clientInbox[c]
              = IF c \in DOMAIN connectedClients /\ clientState[c] = "OPEN"
                THEN Append(clientInbox[c], message) ELSE clientInbox[c]

C15_Witness ==
  \E a \in DOMAIN connectedClients, b \in DOMAIN connectedClients, c \in ClientIds :
    /\ connectedClients[a].role = "community" /\ connectedClients[a].lat # NoNumber
    /\ connectedClients[b].role = undefined /\ connectedClients[b].lat = NoNumber
    /\ clientState[c] = "CLOSED"
    /\ Len(clientInbox[a]) = 2 /\ clientInbox[a][2].type = "alert:updated"
    /\ Len(clientInbox[b]) = 2 /\ clientInbox[b][2].type = "alert:updated"
    /\ Len(clientInbox[c]) = 1

\* ---------------------------------------------------------------- C16
\* C16 as stated: notifyAgents delivers to a connection if and only if it is in
\* the registry and its role is agent.
C16_NotifyIffLiveAgent ==
  \A alert \in Alerts :
    LET T == notifyAgents(PState, [type |-> "alert:new", data |-> alert])
    IN \A c \in ClientIds :
         (NewClientFrames(PState, T, c) # <<>>)
           <=> (c \in DOMAIN connectedClients /\ connectedClients[c].role = "agent")

\* C16 amended: notifyAgents writes the message, once, to a connection if and
\* only if it is in the registry, its role is agent and its socket is open;
\* every other socket is written nothing, wherever the entry is located.
C16_NotifyIffOpenAgent ==
  \A alert \in Alerts :
    \A message \in {[type |-> "alert:new", data |-> alert]} :
    \A T \in {notifyAgents(PState, message)} :
       /\ T.connectedClients = connectedClients
       /\ \A c \in ClientIds :
            T.clientInbox[c]
              = IF /\ c \in DOMAIN connectedClients
                   /\ connectedClients[c].role = "agent"
                   /\ clientState[c] = "OPEN"
                THEN Append(clientInbox[c], message) ELSE clientInbox[c]

C16_Witness ==
  \E a \in DOMAIN connectedClients, b \in DOMAIN connectedClients :
    /\ connectedClients[a].role = "agent"
    /\ connectedClients[b].role = "community"
    /\ connectedClients[b].lat = 1 /\ connectedClients[b].lng = 1
    /\ clientInbox[a][Len(clientInbox[a])] = [type |-> "alert:new", data |-> [lat |-> 1, lng |-> 1]]
    /\ \A i \in 1..Len(clientInbox[b]) :
         clientInbox[b][i] # [type |-> "alert:new", data |-> [lat |-> 1, lng |-> 1]]

\* ---------------------------------------------------------------- C19
\* role, subscriber id and coordinate of an entry
Profile(S, c) == S.connectedClients[c]

\* C19: the role, subscriber id and coordinate of a registry entry c are left
\* unchanged by c's own heartbeats, unknown and malformed frames, by every
\* frame and by the close or error of another connection, and by every
\* fan-out (alert creation, broadcast, agent notification).
C19_ProfileChangesOnlyByOwnFrames ==
  /\ \A c \in DOMAIN connectedClients, message \in OtherFrames :
       Profile(messageEvent(PState, c, message), c) = Profile(PState, c)
  /\ \A d \in DOMAIN connectedClients :
       /\ \A message \in ClientTraffic :
            \A T \in {messageEvent(PState, d, message)} :
              \A c \in DOMAIN connectedClients \ {d} : Profile(T, c) = Profile(PState, c)
       /\ \A T \in {clientCloseEvent(PState, d)} :
            \A c \in DOMAIN connectedClients \ {d} : Profile(T, c) = Profile(PState, c)
       /\ \A T \in {clientErrorEvent(PState, d)} :
            \A c \in DOMAIN connectedClients \ {d} : Profile(T, c) = Profile(PState, c)
  /\ \A call \in FanOutCalls :
       \A T \in {fanOut(PState, call[1], call[2])} :
         \A c \in DOMAIN connectedClients : Profile(T, c) = Profile(PState, c)

C19_Witness ==
  \E c \in DOMAIN connectedClients, d \in DOMAIN connectedClients :
    /\ c # d
    /\ Profile(PState, c) = [userId |-> "user-id", role |-> "community", lat |-> 1, lng |-> 1]
    /\ Profile(PState, d) = [userId |-> "user-id", role |-> "agent", lat |-> 0, lng |-> 1]
    /\ clientInbox[c] = <<[type |-> "connected", clientId |-> c], [type |-> "pong"]>>

\* ---------------------------------------------------------------- C20
OutOfRange(lat, lng) ==
  \/ lat # NoNumber /\ lat \notin ValidLats
  \/ lng # NoNumber /\ lng \notin ValidLngs

\* C20: a register or location-update frame with a latitude or longitude out
\* of range is dropped, the entry of its sender is unchanged, and no registry
\* entry ever holds an out-of-range coordinate.
C20_OutOfRangeIsDropped ==
  \A c \in DOMAIN connectedClients :
    /\ ~OutOfRange(connectedClients[c].lat, connectedClients[c].lng)
    /\ \A message \in RegisterFrames \cup LocationFrames :
         OutOfRange(message.lat, message.lng)
         => messageEvent(PState, c, message) = PState

\* ------------------------------------------ both registries side by side
\* the frames and requests that drive the two endpoints in a run
RegistryRoomTraffic == {JoinFrame("r1", "user", "user-id"), LeaveFrame}
RegistryClientTraffic ==
  {[type |-> "register", userId |-> "user-id", role |-> "agent", lat |-> 1, lng |-> 1],
   [type |-> "ping"]}

NextRegistries ==
  \/ Connection
  \/ \E c \in ConnIds, message \in RegistryRoomTraffic : OnMessage(c, message)
  \/ \E c \in ConnIds : SocketClosing(c)
  \/ \E c \in ConnIds : OnClose(c)
  \/ \E c \in ConnIds : OnError(c)
  \/ ClientConnection
  \/ \E c \in ClientIds, message \in RegistryClientTraffic : ClientMessage(c, message)
  \/ \E c \in ClientIds : ClientSocketClosing(c)
  \/ \E c \in ClientIds : ClientClose(c)
  \/ \E c \in ClientIds : ClientError(c)
  \/ BroadcastAll([type |-> "alert:updated"])

SpecRegistries == Init /\ [][NextRegistries]_vars

MaxSockets == 4

\* Math.random().toString(36).substring(2, 15): some string, drawn without
\* looking at the registry
generateClientId == {"id-a", "id-b", "id-c"}

\* the sockets whose close and error events have not been handled
LiveSockets == {s \in 1..Len(sockets) : sockets[s].live}

\* wss.on("connection"): connectedClients.set(clientId, { socket }) and
\* connections.set(connectionId, connection)
IdConnection(clientId) ==
  /\ Len(sockets) < MaxSockets
  /\ sockets' = Append(sockets, [clientId |-> clientId, live |-> TRUE])
  /\ entries' = MapSet(entries, clientId, Len(sockets) + 1)
  /\ UNCHANGED <<nEvents, webrtcVars, presenceVars, geoVars, clientVars, storeVars>>

\* socket.on("close") and socket.on("error"): the Map entry of the socket's id
\* is deleted
IdDisconnect(s) ==
  /\ s \in LiveSockets
  /\ sockets' = [sockets EXCEPT ![s].live = FALSE]
  /\ entries' = MapDelete(entries, sockets[s].clientId)
  /\ UNCHANGED <<nEvents, webrtcVars, presenceVars, geoVars, clientVars, storeVars>>

NextIds ==
  \/ \E clientId \in generateClientId : IdConnection(clientId)
  \/ \E s \in 1..MaxSockets : IdDisconnect(s)

SpecIds == Init /\ [][NextIds]_vars

\* ---------------------------------------------------------------- C18
\* C18: no two live connections share an identifier, and every live connection
\* has its own entry in the registry: a new connection never overwrites a live
\* entry and closing a connection never removes the entry of another one.
C18_LiveIdsAreDistinct ==
  /\ \A s \in LiveSockets, t \in LiveSockets :
       s # t => sockets[s].clientId # sockets[t].clientId
  /\ \A s \in LiveSockets :
       sockets[s].clientId \in DOMAIN entries /\ entries[sockets[s].clientId] = s

\* ---------------------------------------------------------------- C21
\* C21: when the heartbeat frame (ping) of a registered client c is handled,
\* exactly one pong is written to c's socket within that handling (the socket
\* being open; nothing is written to a socket that is not), nothing is written
\* to the socket of any other client, and the registry, the sockets' states,
\* the stored alerts and the pending alert requests are left as they were.
C21_PingIsAnsweredWithOnePong ==
  \A c \in DOMAIN connectedClients :
    \A T \in {messageEvent(PState, c, [type |-> "ping"])} :
      /\ NewClientFrames(PState, T, c) =
           IF clientState[c] = "OPEN" THEN <<[type |-> "pong"]>> ELSE <<>>
      /\ \A d \in ClientIds \ {c} : T.clientInbox[d] = clientInbox[d]
      /\ T.connectedClients = connectedClients
      /\ T.clientState = clientState

\* client 1 has been answered one pong while client 2, registered and open,
\* has received nothing but its welcome
C21_Witness ==
  /\ {1, 2} \subseteq DOMAIN connectedClients
  /\ clientState[1] = "OPEN" /\ clientState[2] = "OPEN"
  /\ clientInbox[1] = <<[type |-> "connected", clientId |-> 1], [type |-> "pong"]>>
  /\ clientInbox[2] = <<[type |-> "connected", clientId |-> 2]>>

\* ---------------------------------------------------------------- C22
\* frames of unknown kind, unparseable frames and frames lacking required
\* fields: a join-call without data or without alertId, a relay frame without
\* target, a register or location-update without its fields
InvalidRoomFrames ==
  UnknownFrames \cup {MalformedFrame}
  \cup {[type |-> "join-call", data |-> NoData, to |-> NoId, from |-> NoId]}
  \cup {JoinFrame(undefined, r, "user-id") : r \in Roles}
  \cup {RelayFrame(t, [sdp |-> "p1"], NoId, NoId) : t \in RelayTypes}
InvalidClientFrames ==
  {[type |-> "unknown"], [type |-> "malformed"],
   [type |-> "register", userId |-> undefined, role |-> undefined,
    lat |-> NoNumber, lng |-> NoNumber],
   [type |-> "location-update", lat |-> NoNumber, lng |-> NoNumber]}

\* C22: a frame of unknown kind, an unparseable frame or a frame lacking
\* required fields is ignored on the signaling and on the presence socket:
\* handling it writes to no socket, leaves the registries and the rooms as they
\* were, and leaves the sender's socket open and its entry registered.
C22_InvalidFramesAreIgnored ==
  /\ \A c \in DOMAIN connections, message \in InvalidRoomFrames :
       onMessage(State, c, message) = State
  /\ \A c \in DOMAIN connectedClients, message \in InvalidClientFrames :
       messageEvent(PState, c, message) = PState

\* ---------------------------------------------------------------- C23
\* C23: a connection is a member of at most one room at a time, also after a
\* join-call for a second room id without a leave-call in between.
C23_AtMostOneRoom ==
  \A c \in DOMAIN connections : Cardinality(RoomsOf(State, c) \cap RoomIds) <= 1

\* ---------------------------------------------------------------- C24
\* C24: a room is in the room index exactly while it has members: the first
\* join creates it, no room of the index has an empty member set, and when the
\* only member of a room leaves that room (leave-call) or disconnects (close or
\* error) the room's key is deleted, so that getActiveRooms never lists a room
\* without members.
C24_RoomExistsWhileNonEmpty ==
  /\ \A r \in DOMAIN activeRooms : activeRooms[r] # <<>>
  /\ \A c \in DOMAIN connections, r \in RoomIds :
       r \notin DOMAIN activeRooms =>
         \A T \in {handleSignalingMessage(State, c, JoinFrame(r, "user", "user-id"))} :
           r \in DOMAIN T.activeRooms /\ T.activeRooms[r] = <<c>>
  /\ \A c \in DOMAIN connections, r \in DOMAIN activeRooms :
       Range(activeRooms[r]) = {c} =>
         /\ connections[c].alertId = r =>
              r \notin DOMAIN handleSignalingMessage(State, c, LeaveFrame).activeRooms
         /\ r \notin DOMAIN closeEvent(State, c).activeRooms
         /\ r \notin DOMAIN errorEvent(State, c).activeRooms

\* ------------------------------------------------ POST /api/alerts alone
\* request bodies: one the schema accepts, two with a coordinate out of range,
\* one without latitude
AlertRequests ==
  {[lat |-> 1, lng |-> 1], [lat |-> 91, lng |-> 1], [lat |-> 1, lng |-> 181],
   [lat |-> NoNumber, lng |-> 1]}
AlertClientTraffic ==
  {[type |-> "register", userId |-> "user-id", role |-> r, lat |-> 1, lng |-> 1] :
     r \in {"agent", "community"}}
  \cup {[type |-> "register", userId |-> "user-id", role |-> "agent",
         lat |-> NoNumber, lng |-> NoNumber]}

NextAlerts ==
  \/ ClientConnection
  \/ \E c \in ClientIds, message \in AlertClientTraffic : ClientMessage(c, message)
  \/ \E c \in ClientIds : ClientSocketClosing(c)
  \/ \E c \in ClientIds : ClientClose(c)
  \/ \E body \in AlertRequests : PostAlert(body)
  \/ AlertNotifyAgents

SpecAlerts == Init /\ [][NextAlerts]_vars

\* ---------------------------------------------------------------- C25
\* C25: whatever happens inside the push notifications of a created alert (all
\* sent, the subscription lookup throws, one push throws), the request goes on:
\* every open agent-role client is written exactly one alert:new frame with the
\* alert, the response is the success status 201, and the alert stays stored.
C25_PushFailureIsNotPropagated ==
  pendingAlerts # <<>> =>
    \A outcome \in PushOutcomes :
      \A T \in {alertPushed(AState, outcome)} :
        /\ T.lastStatus = 201
        /\ Head(pendingAlerts) \in T.alerts
        /\ \A c \in DOMAIN connectedClients :
             connectedClients[c].role = "agent" /\ clientState[c] = "OPEN" =>
               NewClientFrames(PState, T.presence, c) =
                 <<[type |-> "alert:new", data |-> Head(pendingAlerts)]>>

\* an alert request has completed: the alert is stored, an open agent has been
\* written the alert:new frame, and the response was 201
C25_Witness ==
  /\ pendingAlerts = <<>> /\ lastStatus = 201
  /\ [lat |-> 1, lng |-> 1] \in alerts
  /\ \E c \in DOMAIN connectedClients :
       /\ connectedClients[c].role = "agent" /\ clientState[c] = "OPEN"
       /\ clientInbox[c] = <<[type |-> "connected", clientId |-> c],
                             [type |-> "alert:new", data |-> [lat |-> 1, lng |-> 1]]>>

\* ---------------------------------------------------------------- C30
\* the request bodies that fail validation: a coordinate is missing or out of range
InvalidBodies ==
  {body \in AlertRequests :
     body.lat = NoNumber \/ body.lng = NoNumber \/ OutOfRange(body.lat, body.lng)}

\* C30: an alert-creation request whose coordinate is out of range or missing
\* is rejected before any effect: no alert is stored, nothing is written to any
\* client's socket, no push notification is started, and the response is the
\* error status 400.
C30_InvalidRequestHasNoEffect ==
  \A body \in InvalidBodies :
    \A T \in {postAlert(AState, body)} :
      /\ T.alerts = alerts
      /\ T.presence = PState
      /\ T.pendingAlerts = pendingAlerts
      /\ T.lastStatus = 400

\* a request has been rejected while a community client at the alert's place
\* and an agent are registered and open: nothing is stored, nothing was sent
C30_Witness ==
  /\ lastStatus = 400 /\ alerts = {} /\ pendingAlerts = <<>>
  /\ \E c \in DOMAIN connectedClients, d \in DOMAIN connectedClients :
       /\ connectedClients[c].role = "agent" /\ clientState[c] = "OPEN"
       /\ connectedClients[d].role = "community" /\ clientState[d] = "OPEN"
       /\ connectedClients[d].lat = 1 /\ connectedClients[d].lng = 1
       /\ Len(clientInbox[c]) = 1 /\ Len(clientInbox[d]) = 1

\* ---------------------------------------------------------------- C26
\* C26: every connection that has been opened, on the signaling and on the
\* presence socket, has been written exactly one welcome frame
\* (connection-established, connected) carrying its own server-generated id,
\* and that frame is the first one written to its socket.
C26_WelcomeIsFirstAndOnce ==
  /\ \A c \in ConnIds :
       readyState[c] # "NONE" =>
         /\ inbox[c] # <<>>
         /\ Head(inbox[c]) = [type |-> "connection-established",
                              data |-> [connectionId |-> c]]
         /\ NumOfType(inbox[c], "connection-established") = 1
  /\ \A c \in ClientIds :
       clientState[c] # "NONE" =>
         /\ clientInbox[c] # <<>>
         /\ Head(clientInbox[c]) = [type |-> "connected", clientId |-> c]
         /\ NumOfType(clientInbox[c], "connected") = 1

\* connection 1 has been written its welcome and then a user-joined, client 1
\* its welcome and then a pong
C26_Witness ==
  /\ Len(inbox[1]) = 2 /\ inbox[1][2].type = "user-joined"
  /\ Len(clientInbox[1]) = 2 /\ clientInbox[1][2].type = "pong"

\* ---------------------------------------------------------------- C28
\* C28: a frame handled when its sender's entry is no longer in the registry
\* (the error handler has run, the close event has not) changes nothing and
\* writes to no socket: on the presence socket register, location-update and
\* every other frame leave the registry without the sender's entry, on the
\* signaling socket join-call adds the sender to no room, and leave-call and
\* relay frames have no effect.
C28_FrameOfRemovedSenderIsNoOp ==
  /\ \A c \in ConnIds \ DOMAIN connections :
       /\ \A message \in RoomFrames \cup {MalformedFrame} :
            onMessage(State, c, message) = State
       /\ \A t \in RelayTypes, x \in ConnIds :
            onMessage(State, c, RelayFrame(t, [sdp |-> "p1"], x, NoId)) = State
  /\ \A c \in ClientIds \ DOMAIN connectedClients :
       \A message \in RegisterFrames \cup LocationFrames \cup OtherFrames :
         messageEvent(PState, c, message) = PState

\* the error handler has removed connection 1 and client 1 while their sockets
\* are still closing, and connection 2 and client 2 are registered and open
C28_Witness ==
  /\ 1 \notin DOMAIN connections /\ readyState[1] = "CLOSING"
  /\ 2 \in DOMAIN connections /\ readyState[2] = "OPEN"
  /\ 1 \notin DOMAIN connectedClients /\ clientState[1] = "CLOSING"
  /\ 2 \in DOMAIN connectedClients /\ clientState[2] = "OPEN"

\* ---------------------------------------------------------------- C29
\* C29: when error and close are both delivered for a connection, in either
\* order, the second one finds no entry: it leaves the registries and the rooms
\* as the first left them and writes to no socket, so the room's members get no
\* further user-left; and the first one leaves the entries of all other
\* connections as they were.
C29_CleanupRunsOnce ==
  /\ \A c \in DOMAIN connections :
       \A T1 \in {errorEvent(State, c), closeEvent(State, c)} :
         /\ \A T2 \in {closeEvent(T1, c), errorEvent(T1, c)} :
              /\ T2.connections = T1.connections
              /\ T2.activeRooms = T1.activeRooms
              /\ T2.inbox = T1.inbox
         /\ DOMAIN T1.connections = DOMAIN connections \ {c}
         /\ \A d \in DOMAIN T1.connections : T1.connections[d] = connections[d]
  /\ \A c \in DOMAIN connectedClients :
       \A T1 \in {clientErrorEvent(PState, c), clientCloseEvent(PState, c)} :
         /\ \A T2 \in {clientCloseEvent(T1, c), clientErrorEvent(T1, c)} :
              /\ T2.connectedClients = T1.connectedClients
              /\ T2.clientInbox = T1.clientInbox
         /\ DOMAIN T1.connectedClients = DOMAIN connectedClients \ {c}
         /\ \A d \in DOMAIN T1.connectedClients :
              T1.connectedClients[d] = connectedClients[d]

\* connection 1 shared room r1 with connection 2 and has been closed: it is in
\* no registry, and connection 2 has been written one user-left about it
C29_Witness ==
  /\ readyState[1] = "CLOSED" /\ 1 \notin DOMAIN connections
  /\ 2 \in DOMAIN connections /\ readyState[2] = "OPEN"
  /\ "r1" \in DOMAIN activeRooms /\ activeRooms["r1"] = <<2>>
  /\ NumLeft(inbox[2], 1) = 1

\* ------------------------------------------------- calculateDistance alone
\* comparisons of IEEE-754 numbers: every comparison with NaN is false
NumEq(x, y) == x # NaN /\ y # NaN /\ x = y
NumGeq(x, y) == x # NaN /\ y # NaN /\ x >= y

\* the arguments are two coordinate pairs within the valid range
InitDistance ==
  /\ InitServer
  /\ InitClients
  /\ points \in {<<a[1], a[2], b[1], b[2]>> : a \in GeoPoints, b \in GeoPoints}
  /\ distance = NoNumber

\* calculateDistance(lat1, lng1, lat2, lng2) is called
Measure ==
  /\ distance = NoNumber
  /\ distance' = calculateDistance(points[1], points[2], points[3], points[4])
  /\ UNCHANGED <<points, nEvents, webrtcVars, presenceVars, idVars, clientVars, storeVars>>

NextDistance == Measure

SpecDistance == InitDistance /\ [][NextDistance]_vars

\* ---------------------------------------------------------------- C27
\* C27: for all coordinate pairs a, b within the valid range, the distance
\* from a to b is a number that is never negative, it equals the distance from
\* b to a, and the distance from a point to itself is zero.
C27_DistanceIsSymmetricAndZeroOnEqual ==
  distance # NoNumber =>
    /\ NumGeq(distance, 0)
    /\ NumEq(distance, calculateDistance(points[3], points[4], points[1], points[2]))
    /\ (points[1] = points[3] /\ points[2] = points[4]) => NumEq(distance, 0)

\* ---------------------------------------------------------------- C31
\* C31: a register frame overwrites all four fields of the sender's entry with
\* the frame's values; when it omits lat or lng the entry's coordinate becomes
\* unset whatever it was, the fan-out of an alert then writes nothing to that
\* connection, and a later location-update with a coordinate at the alert's
\* place makes a community connection selected again.
C31_RegisterOverwritesAllFields ==
  \A c \in DOMAIN connectedClients, message \in RegisterFrames :
    \A T \in {messageEvent(PState, c, message)} :
      /\ T.connectedClients[c] = [userId |-> message.userId, role |-> message.role,
                                  lat |-> message.lat, lng |-> message.lng]
      /\ (message.lat = NoNumber \/ message.lng = NoNumber) =>
           /\ \A alert \in Alerts, radiusKm \in Radii :
                ~IsNearby(T.connectedClients[c], alert.lat, alert.lng, radiusKm)
           /\ NewClientFrames(T, alertFanOut(T, [lat |-> 1, lng |-> 1]), c) = <<>>
           /\ (message.role = "community" /\ clientState[c] = "OPEN") =>
                \A U \in {messageEvent(T, c, [type |-> "location-update",
                                              lat |-> 1, lng |-> 1])} :
                  Len(NewClientFrames(U, alertFanOut(U, [lat |-> 1, lng |-> 1]), c)) = 1

\* client c was a community client at the alert's place (it was written the
\* fan-out frame of an alert) and has since registered as agent without
\* coordinate: its entry holds no coordinate
C31_Witness ==
  \E c \in DOMAIN connectedClients :
    /\ connectedClients[c] = [userId |-> "user-id", role |-> "agent",
                              lat |-> NoNumber, lng |-> NoNumber]
    /\ Len(clientInbox[c]) = 2
    /\ clientInbox[c][2].type = "alert:new"
    /\ clientInbox[c][2].data = [alert |-> [lat |-> 1, lng |-> 1], distance |-> 0,
                                 playRingtone |-> TRUE]

\* ---------------------------------------------------------------- C32
\* C32: agent-available is written only while a join-call with role agent is
\* handled: a join-call with role user, into a room that holds an agent or not,
\* writes user-joined frames to the other members and nothing else, to nobody
\* an agent-available; and leave-call, close, error, unknown and unparseable
\* frames write no agent-available either.
C32_PairingOnlyOnAgentJoin ==
  \A c \in DOMAIN connections :
    /\ \A a \in AlertIds :
         \A T \in {onMessage(State, c, JoinFrame(a, "user", "user-id"))} :
           \A x \in ConnIds :
             /\ NumOfType(NewFrames(State, T, x), "user-joined")
                  = Len(NewFrames(State, T, x))
             /\ x = c => NewFrames(State, T, x) = <<>>
    /\ \A T \in {onMessage(State, c, LeaveFrame), closeEvent(State, c),
                 errorEvent(State, c)}
                \cup {onMessage(State, c, message) :
                        message \in UnknownFrames \cup {MalformedFrame}} :
         \A x \in ConnIds : NumOfType(NewFrames(State, T, x), "agent-available") = 0

\* an agent joined room r1 first and a user joined it afterwards, both are
\* still connected and open: the agent was told user-joined, and nobody has
\* been written an agent-available
C32_Witness ==
  \E g \in DOMAIN connections, u \in DOMAIN connections :
    /\ "r1" \in DOMAIN activeRooms /\ activeRooms["r1"] = <<g, u>>
    /\ connections[g].role = "agent" /\ connections[u].role = "user"
    /\ readyState[g] = "OPEN" /\ readyState[u] = "OPEN"
    /\ NumJoined(inbox[g], u) = 1
    /\ \A x \in ConnIds : NumOfType(inbox[x], "agent-available") = 0

\* ------------------------------------------------ the relay and the rooms
\* join-calls for two rooms and offers to the first two connections
RoomRelayTraffic ==
  {JoinFrame("r1", "user", "user-id"), JoinFrame("r2", "agent", "user-id")}
  \cup {RelayFrame("offer", [sdp |-> "p1"], x, NoId) : x \in {1, 2}}

NextRoomRelay ==
  \/ Connection
  \/ \E c \in ConnIds, message \in RoomRelayTraffic : OnMessage(c, message)
  \/ \E c \in ConnIds : SocketClosing(c)
  \/ \E c \in ConnIds : OnClose(c)

SpecRoomRelay == Init /\ [][NextRoomRelay]_vars

C34_AtMostOneAlertNewPerAlert ==
  pendingAlerts = <<>> =>
    \A body \in AlertTraffic :
      \A A1 \in {postAlert(AState, body)} :
        \A d \in DOMAIN connectedClients, message \in AlertClientTraffic :
          \A A2 \in {[A1 EXCEPT !.presence = messageEvent(@, d, message)]} :
            \A A3 \in {alertPushed(A2, "sent")} :
              \A c \in ClientIds :
                NumOfType(NewClientFrames(PState, A3.presence, c), "alert:new") <= 1

\* ------------------------------------------- the call client, useWebRTC
\* One page runs one useWebRTC hook.  hooks[h].connectionId is the hook's
\* connectionId state, set from connection-established; closureId is the
\* connectionId that createPeerConnection closed over in the render whose
\* startCall is running; read counts the frames onmessage has handled.
\* socket.send and the server's "message" event for the frame are one step.
SessionDescription == [sdp |-> "p1"]

\* createPeerConnection, onicecandidate: { type, data: event.candidate, to: connectionId }
iceCandidateFrame(H) == RelayFrame("ice-candidate", SessionDescription, H.closureId, NoId)

\* answerCall: { type: "answer", data: answer, to: connectionId }
answerCallFrame(H) == RelayFrame("answer", SessionDescription, H.connectionId, NoId)

\* handleOffer: { type: "answer", data: answer, to: from }
handleOfferFrame(H) == RelayFrame("answer", SessionDescription, H.offerFrom, NoId)

\* startCall up to its wait for the socket: initializeWebSocket creates the
\* socket, which the server accepts; the page starts one call at a time
StartCall(h, alertId, role) ==
  /\ hooks[h].phase = "idle"
  /\ nextId < MaxConn
  /\ LET connectionId == nextId + 1
         S1 == [State EXCEPT
                  !.readyState[connectionId] = "OPEN",
                  !.connections = MapSet(@, connectionId,
                     [alertId |-> undefined, role |-> "user", userId |-> undefined])]
     IN /\ Commit(sendMessage(S1, connectionId,
                    [type |-> "connection-established",
                     data |-> [connectionId |-> connectionId]]))
        /\ nextId' = connectionId
        /\ hooks' = [hooks EXCEPT ![h] =
                       [hooks[h] EXCEPT !.phase = "connecting", !.ws = connectionId,
                                        !.closureId = hooks[h].connectionId,
                                        !.alertId = alertId, !.role = role, !.read = 0]]
  /\ UNCHANGED <<nEvents, log, handled, presenceVars, idVars, geoVars, usock, page, storeVars>>

\* startCall after the wait: the socket is open, join-call is sent and the
\* peer connection is created
JoinCall(h) ==
  /\ hooks[h].phase = "connecting"
  /\ readyState[hooks[h].ws] = "OPEN"
  /\ Commit(onMessage(State, hooks[h].ws,
                      JoinFrame(hooks[h].alertId, hooks[h].role, "user-id")))
  /\ hooks' = [hooks EXCEPT ![h] = [hooks[h] EXCEPT !.phase = "joined", !.pc = TRUE]]
  /\ UNCHANGED <<nextId, nEvents, log, handled, presenceVars, idVars, geoVars, usock, page,
                 storeVars>>

\* webSocketRef.current.onmessage up to the first await of its handler
hookOnMessage(H, message) ==
  LET H1 == [H EXCEPT !.read = @ + 1]
  IN CASE message.type = "connection-established" ->
            [H1 EXCEPT !.connectionId = message.data.connectionId]
       [] message.type = "offer" /\ H.pc ->
            \* handleOffer: setRemoteDescription(offer)
            [H1 EXCEPT !.signalingState = "have-remote-offer", !.offerFrom = message.from]
       [] OTHER -> H1

HookMessage(h) ==
  /\ hooks[h].ws # NoId
  /\ hooks[h].read < Len(inbox[hooks[h].ws])
  /\ hooks' = [hooks EXCEPT ![h] = hookOnMessage(hooks[h], inbox[hooks[h].ws][hooks[h].read + 1])]
  /\ UNCHANGED <<nextId, nEvents, webrtcVars, presenceVars, idVars, geoVars, usock, page,
                 storeVars>>

\* handleOffer after setRemoteDescription: createAnswer rejects unless the
\* peer connection still has the remote offer; the catch logs
HandleOfferAnswer(h) ==
  /\ hooks[h].pc
  /\ hooks[h].offerFrom # NoId
  /\ IF hooks[h].signalingState = "have-remote-offer"
     THEN /\ Commit(onMessage(State, hooks[h].ws, handleOfferFrame(hooks[h])))
          /\ hooks' = [hooks EXCEPT ![h] =
                         [hooks[h] EXCEPT !.signalingState = "stable", !.offerFrom = NoId,
                                          !.localDescription = TRUE]]
     ELSE /\ Commit(State)
          /\ hooks' = [hooks EXCEPT ![h] = [hooks[h] EXCEPT !.offerFrom = NoId]]
  /\ UNCHANGED <<nextId, nEvents, log, handled, presenceVars, idVars, geoVars, usock, page,
                 storeVars>>

\* answerCall: createAnswer resolves while the remote offer is set
AnswerCall(h) ==
  /\ hooks[h].pc
  /\ hooks[h].signalingState = "have-remote-offer"
  /\ Commit(onMessage(State, hooks[h].ws, answerCallFrame(hooks[h])))
  /\ hooks' = [hooks EXCEPT ![h] =
                 [hooks[h] EXCEPT !.signalingState = "stable", !.localDescription = TRUE]]
  /\ UNCHANGED <<nextId, nEvents, log, handled, presenceVars, idVars, geoVars, usock, page,
                 storeVars>>

\* peerConnection.onicecandidate: candidates are gathered once a local
\* description is set; one candidate per call is followed
IceCandidate(h) ==
  /\ hooks[h].pc
  /\ hooks[h].localDescription
  /\ ~hooks[h].sentIce
  /\ Commit(onMessage(State, hooks[h].ws, iceCandidateFrame(hooks[h])))
  /\ hooks' = [hooks EXCEPT ![h] = [hooks[h] EXCEPT !.sentIce = TRUE]]
  /\ UNCHANGED <<nextId, nEvents, log, handled, presenceVars, idVars, geoVars, usock, page,
                 storeVars>>

\* endCall: leave-call is sent, cleanup closes the peer connection and the
\* socket and resets connectionId
EndCall(h) ==
  /\ hooks[h].phase = "joined"
  /\ Commit(closeEvent(onMessage(State, hooks[h].ws, LeaveFrame), hooks[h].ws))
  /\ hooks' = [hooks EXCEPT ![h] = InitHook]
  /\ UNCHANGED <<nextId, nEvents, log, handled, presenceVars, idVars, geoVars, usock, page,
                 storeVars>>

\* the sockets the hooks have opened
HookSockets == {hooks[h].ws : h \in HookIds} \ {NoId}

\* a client of /webrtc that is not this hook sends an offer; one offer per
\* call client is followed
PeerOffer(c, x) ==
  /\ c \notin HookSockets
  /\ x \in HookSockets
  /\ NumOfType(inbox[x], "offer") = 0
  /\ OnMessage(c, RelayFrame("offer", [sdp |-> "p2"], x, NoId))

CallAlertId == "r1"

NextCall ==
  \/ \E h \in HookIds, role \in {"user", "agent"} : StartCall(h, CallAlertId, role)
  \/ \E h \in HookIds : JoinCall(h)
  \/ \E h \in HookIds : HookMessage(h)
  \/ \E h \in HookIds : HandleOfferAnswer(h)
  \/ \E h \in HookIds : AnswerCall(h)
  \/ \E h \in HookIds : IceCandidate(h)
  \/ \E h \in HookIds : EndCall(h)
  \/ Connection
  \/ \E c \in ConnIds, x \in ConnIds : PeerOffer(c, x)

SpecCall == Init /\ [][NextCall]_vars

\* the other members of the room the call client has joined
Peers(H) ==
  IF H.alertId \in DOMAIN activeRooms THEN Range(activeRooms[H.alertId]) \ {H.ws} ELSE {}

\* ---------------------------------------------------------------- C35
\* C35: every ice-candidate frame the call client emits, and every answer
\* frame answerCall emits, is addressed to the other participant of its
\* room: its to field is the id of a remote member of the room, never the
\* client's own connection id and never null.
C35_ClientFramesAddressThePeer ==
  \A h \in HookIds :
    /\ (hooks[h].pc /\ hooks[h].localDescription) =>
         iceCandidateFrame(hooks[h]).to \in Peers(hooks[h])
    /\ (hooks[h].pc /\ hooks[h].signalingState = "have-remote-offer") =>
         answerCallFrame(hooks[h]).to \in Peers(hooks[h])

\* ------------------------------------------------- fair scheduling
\* The browser's event loop runs every ready continuation and delivers every
\* frame that has arrived; the server handles every frame as it is sent.
\* Starting and ending a call, and what other clients send, are up to users.
SpecCallFair ==
  /\ Init
  /\ [][NextCall]_vars
  /\ \A h \in HookIds :
       /\ WF_vars(JoinCall(h))
       /\ WF_vars(HookMessage(h))
       /\ WF_vars(HandleOfferAnswer(h))
       /\ WF_vars(IceCandidate(h))

\* a user client and an agent client have joined the same room through startCall
BothJoined ==
  /\ \A h \in HookIds : hooks[h].phase = "joined" /\ readyState[hooks[h].ws] = "OPEN"
  /\ hooks[1].alertId = hooks[2].alertId
  /\ {hooks[1].role, hooks[2].role} = {"user", "agent"}

\* an offer of one of the two has reached the other, whose answer has come back
Answered ==
  \E h \in HookIds, g \in HookIds :
    /\ h # g
    /\ hooks[h].ws # NoId
    /\ hooks[g].ws # NoId
    /\ \E i \in 1..Len(inbox[hooks[g].ws]) :
         inbox[hooks[g].ws][i].type = "offer" /\ inbox[hooks[g].ws][i].from = hooks[h].ws
    /\ \E i \in 1..Len(inbox[hooks[h].ws]) :
         inbox[hooks[h].ws][i].type = "answer" /\ inbox[hooks[h].ws][i].from = hooks[g].ws

\* ---------------------------------------------------------------- C36
\* C36: once a user client and an agent client have both joined the same room
\* through startCall, then, unless one of them leaves, an offer from one of
\* them is eventually relayed to the other and answered.
C36_HandshakeProgress == BothJoined ~> (Answered \/ ~BothJoined)

\* ------------------------------- the /ws client: useSocket, CommunityPage
\* usock.live holds the sockets the hook has created whose onclose has not
\* run; usock.timers counts the pending setTimeout(connect, 3000).  page.stale
\* says that a dependency of the page's register effect has changed since the
\* effect last ran.

\* connect(): new WebSocket(wsUrl), accepted by the server, and onopen; U is
\* the hook's state when connect is called
connect(U) ==
  /\ nextClientId < MaxClients
  /\ LET clientId == nextClientId + 1
         S1 == [PState EXCEPT
                  !.clientState[clientId] = "OPEN",
                  !.connectedClients = MapSet(@, clientId,
                     [userId |-> undefined, role |-> undefined,
                      lat |-> NoNumber, lng |-> NoNumber])]
     IN /\ PCommit(sendToClient(S1, clientId,
                     [type |-> "connected", clientId |-> clientId]))
        /\ nextClientId' = clientId
        /\ usock' = [U EXCEPT !.socketRef = clientId, !.isConnected = TRUE,
                              !.live = @ \cup {clientId}]
  /\ page' = [page EXCEPT !.stale = TRUE]

\* the effect of useSocket runs: the page is mounted
Mount ==
  /\ Tick
  /\ ~usock.mounted /\ ~usock.unmounted
  /\ connect([usock EXCEPT !.mounted = TRUE])
  /\ UNCHANGED <<pendingAlerts, alerts, lastStatus, webrtcVars, idVars, geoVars, hooks,
                 storeVars>>

\* the cleanup of the effect: clearInterval and socketRef.current.close()
Unmount ==
  /\ Tick
  /\ usock.mounted
  /\ usock' = [usock EXCEPT !.mounted = FALSE, !.unmounted = TRUE]
  /\ clientState' = IF usock.socketRef # NoId /\ clientState[usock.socketRef] = "OPEN"
                    THEN [clientState EXCEPT ![usock.socketRef] = "CLOSING"]
                    ELSE clientState
  /\ UNCHANGED <<connectedClients, clientInbox, nextClientId, pendingAlerts, alerts,
                 lastStatus, webrtcVars, idVars, geoVars, hooks, page, storeVars>>

\* socketRef.current.onclose of socket c, closed by either side
SocketOnClose(c) ==
  /\ Tick
  /\ c \in usock.live
  /\ clientState[c] \in {"CLOSING", "CLOSED"}
  /\ usock' = [usock EXCEPT !.live = @ \ {c}, !.isConnected = FALSE, !.timers = @ + 1]
  /\ page' = [page EXCEPT !.stale = TRUE]
  /\ UNCHANGED <<nextClientId, pendingAlerts, alerts, lastStatus, connectedClients,
                 clientState, clientInbox, webrtcVars, idVars, geoVars, hooks, storeVars>>

\* a setTimeout(connect, 3000) fires
ReconnectTimer ==
  /\ Tick
  /\ usock.timers > 0
  /\ connect([usock EXCEPT !.timers = @ - 1])
  /\ UNCHANGED <<pendingAlerts, alerts, lastStatus, webrtcVars, idVars, geoVars, hooks,
                 storeVars>>

\* useGeolocation delivers a position
Locate(lat, lng) ==
  /\ Tick
  /\ usock.mounted
  /\ ~page.hasLocation
  /\ page' = [page EXCEPT !.hasLocation = TRUE, !.latitude = lat, !.longitude = lng,
                          !.stale = TRUE]
  /\ UNCHANGED <<nextClientId, presenceVars, webrtcVars, idVars, geoVars, hooks, usock,
                 storeVars>>

\* onClick of the Community Mode button: setCommunityMode(!communityMode)
ToggleCommunityMode ==
  /\ Tick
  /\ usock.mounted
  /\ page' = [page EXCEPT !.communityMode = ~@, !.stale = TRUE]
  /\ UNCHANGED <<nextClientId, presenceVars, webrtcVars, idVars, geoVars, hooks, usock,
                 storeVars>>

\* the frame of the register effect
registerFrame(G) ==
  [type |-> "register", userId |-> undefined, role |-> "community",
   lat |-> G.latitude, lng |-> G.longitude]

\* the register effect of the page runs after a render that changed one of
\* its dependencies; sendMessage writes to an open socket only
RegisterEffect ==
  /\ Tick
  /\ usock.mounted
  /\ page.stale
  /\ page' = [page EXCEPT !.stale = FALSE]
  /\ IF /\ usock.isConnected /\ page.hasLocation /\ page.communityMode
        /\ usock.socketRef # NoId /\ clientState[usock.socketRef] = "OPEN"
     THEN PCommit(messageEvent(PState, usock.socketRef, registerFrame(page)))
     ELSE PCommit(PState)
  /\ UNCHANGED <<nextClientId, pendingAlerts, alerts, lastStatus, webrtcVars, idVars,
                 geoVars, hooks, usock, storeVars>>

NextPage ==
  \/ Mount
  \/ Unmount
  \/ \E c \in ClientIds : SocketOnClose(c)
  \/ ReconnectTimer
  \/ Locate(1, 1)
  \/ ToggleCommunityMode
  \/ RegisterEffect
  \/ \E c \in ClientIds : ClientSocketClosing(c)
  \/ \E c \in ClientIds : ClientClose(c)
  \/ \E body \in AlertRequests : PostAlert(body)
  \/ AlertNotifyAgents

SpecPage == Init /\ [][NextPage]_vars

\* ---------------------------------------------------------------- C37
\* C37: after the useSocket hook has been torn down (its cleanup has run and
\* closed the socket), the client opens no further WebSocket connection.
C37_NoConnectionAfterTeardown ==
  [][usock.unmounted =>
       /\ usock'.socketRef = usock.socketRef
       /\ nextClientId' = nextClientId]_vars

\* ---------------------------------------------------------------- C38
\* C38: while Community Mode is switched off on the page (and the page's
\* register effect has run since the switch), the page's connection is not
\* selected by the proximity fan-out: an alert created then writes it no
\* alert:new.
C38_NoAlertWhileCommunityModeOff ==
  (usock.mounted /\ ~page.communityMode /\ ~page.stale /\ usock.socketRef # NoId) =>
    \A body \in AlertRequests :
      NumOfType(NewClientFrames(PState, postAlert(AState, body).presence, usock.socketRef),
                "alert:new") = 0

\* ------------------------------------------------- the alert store alone
\* MemStorage.alerts with the two fields the resolution rule reads.  The ids
\* randomUUID returns are taken to be fresh: the k-th alert gets id k.
MaxAlerts == 3
null == "null"
\* what new Date() returns
Date == "date"
\* the status column's enum; a status that is absent is undefined
AlertStatuses == {"active", "in_progress", "resolved"}
InsertStatuses == AlertStatuses \cup {undefined}

\* createAlert: { ...insertAlert, id, timestamp, resolvedAt: null, assignedAgentId: null }
storeCreateAlert(M, insertAlert) ==
  MapSet(M, Cardinality(DOMAIN M) + 1, [status |-> insertAlert.status, resolvedAt |-> null])

\* updateAlert: the store it leaves and the value it returns
updateAlert(M, id, updates) ==
  IF id \notin DOMAIN M THEN [alerts |-> M, result |-> undefined]
  ELSE LET merged == [M[id] EXCEPT !.status = updates.status]
           updatedAlert == IF updates.status = "resolved" /\ merged.resolvedAt = null
                           THEN [merged EXCEPT !.resolvedAt = Date]
                           ELSE merged
       IN [alerts |-> MapSet(M, id, updatedAlert), result |-> updatedAlert]

CreateAlert(insertAlert) ==
  /\ Cardinality(DOMAIN store) < MaxAlerts
  /\ store' = storeCreateAlert(store, insertAlert)
  /\ UNCHANGED <<nEvents, webrtcVars, nextId, presenceVars, idVars, geoVars, clientVars>>

UpdateAlert(id, updates) ==
  /\ store' = updateAlert(store, id, updates).alerts
  /\ UNCHANGED <<nEvents, webrtcVars, nextId, presenceVars, idVars, geoVars, clientVars>>

NextStore ==
  \/ \E s \in InsertStatuses : CreateAlert([status |-> s])
  \/ \E id \in 1..(MaxAlerts + 1), s \in InsertStatuses : UpdateAlert(id, [status |-> s])

SpecStore == Init /\ [][NextStore]_vars

\* ---------------------------------------------------------------- C39
\* C39: in every reachable state of the alert store every alert whose status
\* is resolved has a resolvedAt that is not null, and updateAlert on an id the
\* store does not hold returns undefined and leaves the store unchanged.
C39_ResolvedHasResolvedAt ==
  /\ \A id \in DOMAIN store :
       store[id].status = "resolved" => store[id].resolvedAt # null
  /\ \A id \in (1..(MaxAlerts + 1)) \ DOMAIN store, s \in InsertStatuses :
       updateAlert(store, id, [status |-> s]) = [alerts |-> store, result |-> undefined]
====
